---------------------------- MODULE Spec2Model ----------------------------
(***************************************************************************)
(* Readers of the data-lake connectors of pathway:                         *)
(*   - DeltaTableReader (src/connectors/data_lake/delta.rs), the Format-D  *)
(*     reader that follows the commit log of a Delta table;                *)
(*   - IcebergReader (src/connectors/data_lake/iceberg.rs), the Format-I   *)
(*     reader that diffs the file plans of Iceberg snapshots.              *)
(*                                                                         *)
(* A data file is a record [id, n]: an identifier and the number of rows   *)
(* its parquet footer reports.  Row j of file f is the pair <<f.id, j>>,    *)
(* so every row of every file is distinct and carries its origin.          *)
(***************************************************************************)
EXTENDS Integers, Sequences, FiniteSets, TLC

VARIABLES
    \* ---- Format-D: the table and its reader
    log,          \* commit log: log[v] is the action list of the commit that creates version v
    listing,      \* version -> the order in which the library lists the files of that snapshot
    polling,      \* streaming_mode.is_polling_enabled() of the reader
    dr,           \* the DeltaTableReader object (its mutable fields)
    dpc,          \* "closed" | "idle" | "blocked" (inside the polling loop) | "failed"
    dout,         \* results returned by read() of the present reader, oldest first
    firstRun,     \* Data events of the reader that ran before the restart
    seekTo,       \* the offset handed to seek() at the restart (NoOffset before)
    seekStatus,   \* what seek() returned: "none" | "Ok" | an error
    vacuumed,     \* data files whose object has been deleted from the store
    \* ---- Format-I: the catalog's table and its reader
    snaps,        \* snapshot id -> file plan (a set of scan tasks) of that snapshot
    snapshot_log, \* the ids of the snapshots that have been current, oldest first
    expired,      \* data files whose object has been deleted from the store
    ipolling,     \* streaming_mode.is_polling_enabled() of the reader
    ir,           \* the IcebergReader object (its mutable fields)
    ipc,          \* "closed" | "idle" | "blocked" (inside wait_for_snapshot_update)
    iout,         \* results and errors returned by read(), oldest first
    isought,      \* the snapshot id handed to seek() (NoSnapshot: seek not called)
    \* ---- the path of a data file and the location of its table
    file_path,    \* the path of an Add/Remove action, a string
    base_path,    \* DeltaTableReader.base_path, a string
    absolute,     \* what ensure_absolute_path_with_base returned for them (NoPath before)
    again,        \* what it returned for `absolute` and base_path (NoPath before)
    \* ---- the type of a column
    engine_type,  \* a Type of the engine
    delta_mapped, \* what delta_table_primitive_type returned for it (NotMapped before)
    iceberg_mapped, \* what iceberg_type returned for it (NotMapped before)
    \* ---- seek() with a frontier that holds no offset of the reader's storage
    frontier,     \* the last such frontier handed to seek() (NoFrontier before)
    \* ---- the catalog of the Format-I tables
    namespaces,   \* the namespaces of the catalog
    tables,       \* the tables of the catalog, <<namespace, name>>
    opened        \* the calls of IcebergReader::new: namespace, table name and result

dvars == <<log, listing, polling, dr, dpc, dout, firstRun, seekTo, seekStatus, vacuumed>>

ivars == <<snaps, snapshot_log, expired, ipolling, ir, ipc, iout, isought>>

pvars == <<file_path, base_path, absolute, again, engine_type, delta_mapped, iceberg_mapped,
           frontier, namespaces, tables, opened>>

vars == <<dvars, ivars, pvars>>

----------------------------------------------------------------------------
(* Bounds of the model *)

MaxVersion == 2      \* commits appended to the log
MaxRows == 2         \* rows of one data file
MaxCommits == 2      \* snapshots committed to the Format-I table
MaxFailures == 1     \* failed read() calls after which the engine gives up

MaxPathLen == 2      \* characters of a file path and of a table location
MaxDepth == 2        \* wrappers (Optional, Array, Tuple, List) around a type
MaxOpens == 2        \* readers constructed on the catalog

----------------------------------------------------------------------------
(* Values *)

\* Option<i64>::None of last_fully_read_version
NoVersion == -1

NoRow == <<0, 0>>

Range(s) == {s[i] : i \in 1..Len(s)}

RECURSIVE Concat(_)
Concat(ss) == IF ss = <<>> THEN <<>> ELSE Head(ss) \o Concat(Tail(ss))

\* The rows a parquet row iterator over file f yields, in file order.
RowsOf(f) == [j \in 1..f.n |-> <<f.id, j>>]

\* rows_in_file_count: the sum of the row groups' num_rows in the footer.
rows_in_file_count(f) == f.n

\* kernel actions of a commit
AddAction(f, dc) == [kind |-> "add", path |-> f, data_change |-> dc, deletion_vector |-> FALSE]
RemoveAction(f, dc, dv) == [kind |-> "remove", path |-> f, data_change |-> dc, deletion_vector |-> dv]
OtherAction == [kind |-> "other", path |-> [id |-> 0, n |-> 0], data_change |-> FALSE, deletion_vector |-> FALSE]

\* A work item that is an Insert whatever the action was.
DeltaReaderAction_insertOnly(type, path) == [action_type |-> "Insert", path |-> path]

\* DeltaReaderAction::new
DeltaReaderAction(type, path) == [action_type |-> type, path |-> path]

----------------------------------------------------------------------------
(* The table as the library presents it *)

RECURSIVE ApplyActions(_, _)
ApplyActions(files, acts) ==
    IF acts = <<>> THEN files
    ELSE LET a == Head(acts)
         IN ApplyActions(CASE a.kind = "add" -> files \cup {a.path}
                           [] a.kind = "remove" -> files \ {a.path}
                           [] OTHER -> files,
                         Tail(acts))

\* The data files of the snapshot at version v: the fold of commits 1..v.
RECURSIVE SnapshotFiles(_, _)
SnapshotFiles(lg, v) ==
    IF v = 0 THEN {} ELSE ApplyActions(SnapshotFiles(lg, v - 1), lg[v])

\* The number of Add actions in the log: data files are named afresh, so the
\* next file written gets the next identifier.
RECURSIVE CountAdds(_)
CountAdds(acts) ==
    IF acts = <<>> THEN 0
    ELSE (IF Head(acts).kind = "add" THEN 1 ELSE 0) + CountAdds(Tail(acts))

RECURSIVE NumAdds(_)
NumAdds(lg) == IF lg = <<>> THEN 0 ELSE CountAdds(Head(lg)) + NumAdds(Tail(lg))

FreshFile(lg, n) == [id |-> NumAdds(lg) + 1, n |-> n]

\* All orders of a finite set of files.
Orders(S) == {s \in [1..Cardinality(S) -> S] : Range(s) = S}

\* log_store().peek_next_commit(version): the next commit, if there is one.
HasNextCommit(lg, version) == version + 1 <= Len(lg)

\* Mutant of get_reader_actions: the last file of the listing is left out.
get_reader_actions_short(files) ==
    [i \in 1..(Len(files) - 1) |-> DeltaReaderAction("Insert", files[i])]

\* get_reader_actions: every file of the loaded snapshot as an Insert item,
\* in the order the library lists them.
get_reader_actions(files) ==
    [i \in 1..Len(files) |-> DeltaReaderAction("Insert", files[i])]

----------------------------------------------------------------------------
(* DeltaTableReader *)

\* Mutant of HasVector: a Remove with a deletion vector is taken as a plain Remove.
HasVector_ignored(action) == FALSE

\* action.deletion_vector.is_some() of a Remove action
HasVector(action) == action.deletion_vector

\* The scan of one commit's actions (the for loop of upgrade_table_version).
RECURSIVE ScanActions(_, _, _)
ScanActions(txn_actions, added_blocks, data_changed) ==
    IF txn_actions = <<>>
    THEN [error |-> FALSE, added_blocks |-> added_blocks, data_changed |-> data_changed]
    ELSE LET action == Head(txn_actions)
         IN CASE action.kind = "remove" ->
                    IF HasVector(action)
                    THEN [error |-> TRUE, added_blocks |-> <<>>, data_changed |-> FALSE]
                    ELSE ScanActions(Tail(txn_actions),
                                     Append(added_blocks, DeltaReaderAction("Delete", action.path)),
                                     data_changed \/ action.data_change)
              [] action.kind = "add" ->
                    ScanActions(Tail(txn_actions),
                                Append(added_blocks, DeltaReaderAction("Insert", action.path)),
                                data_changed \/ action.data_change)
              [] OTHER -> ScanActions(Tail(txn_actions), added_blocks, data_changed)

\* Mutant of AdvanceVersion: the row counter is not reset.
AdvanceVersion_noReset(r, next_version, scan) ==
    [r EXCEPT !.last_fully_read_version = r.current_version,
              !.current_version = next_version,
              !.parquet_files_queue = IF scan.data_changed THEN scan.added_blocks ELSE @]

\* Mutant of AdvanceVersion: the collected files are installed whether or
\* not the commit changed data.
AdvanceVersion_alwaysInstall(r, next_version, scan) ==
    [r EXCEPT !.last_fully_read_version = r.current_version,
              !.current_version = next_version,
              !.rows_read_within_version = 0,
              !.parquet_files_queue = scan.added_blocks]

\* A transition that jumps over the version after the one examined.
AdvanceVersion_skipsOne(r, next_version, scan) ==
    [r EXCEPT !.last_fully_read_version = r.current_version,
              !.current_version = next_version + 1,
              !.rows_read_within_version = 0,
              !.parquet_files_queue = IF scan.data_changed THEN scan.added_blocks ELSE @]

\* The version transition at the end of one iteration of the while loop.
AdvanceVersion(r, next_version, scan) ==
    [r EXCEPT !.last_fully_read_version = r.current_version,
              !.current_version = next_version,
              !.rows_read_within_version = 0,
              !.parquet_files_queue = IF scan.data_changed THEN scan.added_blocks ELSE @]

\* The while loop of upgrade_table_version, entered with the queue cleared.
\* `examined` is not a field of the struct: it records the versions whose
\* actions the loop has gone through (the for loop of lines 274-296).
RECURSIVE UpgradeLoop(_, _, _)
UpgradeLoop(r, lg, is_polling_enabled) ==
    IF r.parquet_files_queue # <<>> THEN [r |-> r, status |-> "Ok"]
    ELSE IF ~HasNextCommit(lg, r.current_version)
         THEN IF ~is_polling_enabled
              THEN [r |-> r, status |-> "Ok"]
              ELSE [r |-> r, status |-> "Blocked"]
         ELSE LET next_version == r.current_version + 1
                  scan == ScanActions(lg[next_version], <<>>, FALSE)
                  seen == [r EXCEPT !.examined = Append(@, next_version)]
              IN IF scan.error
                 THEN [r |-> seen, status |-> "DeltaDeletionVectorsNotSupported"]
                 ELSE UpgradeLoop(AdvanceVersion(seen, next_version, scan), lg,
                                  is_polling_enabled)

\* An upgrade that steps over the commit it rejects.
upgrade_table_version_skipsVector(r, lg, is_polling_enabled) ==
    LET u == UpgradeLoop([r EXCEPT !.parquet_files_queue = <<>>], lg, is_polling_enabled)
    IN IF u.status = "DeltaDeletionVectorsNotSupported"
       THEN [r |-> [u.r EXCEPT !.current_version = @ + 1], status |-> u.status]
       ELSE u

\* upgrade_table_version: the queue is cleared (253), then the loop runs.
upgrade_table_version(r, lg, is_polling_enabled) ==
    UpgradeLoop([r EXCEPT !.parquet_files_queue = <<>>], lg, is_polling_enabled)

\* read_next_row_native.  `missing` are the files whose object cannot be
\* downloaded.  status: "Row" | "NoObjectsToRead" | "Blocked" | an error.
RECURSIVE read_next_row_native(_, _, _, _)
read_next_row_native(r, lg, is_polling_enabled, missing) ==
    IF r.reader_some
    THEN IF r.reader # <<>>
         THEN [r |-> [r EXCEPT !.reader = Tail(@)], status |-> "Row", row |-> Head(r.reader)]
         ELSE read_next_row_native([r EXCEPT !.reader_some = FALSE],
                                   lg, is_polling_enabled, missing)
    ELSE LET next(u) ==
                 IF u.status # "Ok" THEN [r |-> u.r, status |-> u.status, row |-> NoRow]
                 ELSE IF u.r.parquet_files_queue = <<>>
                 THEN [r |-> u.r, status |-> "NoObjectsToRead", row |-> NoRow]
                 ELSE LET next_action == Head(u.r.parquet_files_queue)
                          popped == [u.r EXCEPT !.parquet_files_queue = Tail(@)]
                      IN IF next_action.path \in missing
                         THEN [r |-> popped, status |-> "Io", row |-> NoRow]
                         ELSE read_next_row_native(
                                  [popped EXCEPT !.current_event_type = next_action.action_type,
                                                 !.reader = RowsOf(next_action.path),
                                                 !.reader_some = TRUE],
                                  lg, is_polling_enabled, missing)
         \* the upgrade is carried out once, and the rest follows from its outcome
         IN CHOOSE res \in {next(u) : u \in {IF r.parquet_files_queue = <<>>
                                             THEN upgrade_table_version(r, lg, is_polling_enabled)
                                             ELSE [r |-> r, status |-> "Ok"]}} : TRUE

NoOffset == [version |-> NoVersion, rows_read_within_version |-> 0,
             last_fully_read_version |-> NoVersion]

\* An offset that names the version after the reader's.
Position_ahead(r) == [version |-> r.current_version + 1,
                      rows_read_within_version |-> r.rows_read_within_version,
                      last_fully_read_version |-> r.last_fully_read_version]

\* OffsetValue::DeltaTablePosition of the reader's present position
Position(r) == [version |-> r.current_version,
                rows_read_within_version |-> r.rows_read_within_version,
                last_fully_read_version |-> r.last_fully_read_version]

Result(type, event, row, offset) ==
    [type |-> type, event |-> event, row |-> row, offset |-> offset]

\* read() that hands the sentinel to its caller.
DeltaRead_sentinel(r, lg, is_polling_enabled, missing) ==
    LET n == read_next_row_native(r, lg, is_polling_enabled, missing)
    IN CASE n.status = "Row" ->
              LET r2 == [n.r EXCEPT !.rows_read_within_version = @ + 1]
              IN [r |-> r2,
                  result |-> Result("Data", r2.current_event_type, n.row, Position(r2))]
         [] OTHER ->
              [r |-> n.r, result |-> Result(n.status, "None", NoRow, NoOffset)]

\* read() that does not look for new commits once nothing is pending.
DeltaRead_noUpgrade(r, lg, is_polling_enabled, missing) ==
    LET n == IF r.parquet_files_queue = <<>> /\ r.reader = <<>>
             THEN [r |-> [r EXCEPT !.reader_some = FALSE], status |-> "NoObjectsToRead",
                   row |-> NoRow]
             ELSE read_next_row_native(r, lg, is_polling_enabled, missing)
    IN CASE n.status = "Row" ->
              LET r2 == [n.r EXCEPT !.rows_read_within_version = @ + 1]
              IN [r |-> r2,
                  result |-> Result("Data", r2.current_event_type, n.row, Position(r2))]
         [] n.status = "NoObjectsToRead" ->
              [r |-> n.r, result |-> Result("Finished", "None", NoRow, NoOffset)]
         [] OTHER ->
              [r |-> n.r, result |-> Result(n.status, "None", NoRow, NoOffset)]

\* Reader::read of DeltaTableReader: the reader afterwards and what is returned.
DeltaRead(r, lg, is_polling_enabled, missing) ==
    LET n == read_next_row_native(r, lg, is_polling_enabled, missing)
    IN CASE n.status = "Row" ->
              LET r2 == [n.r EXCEPT !.rows_read_within_version = @ + 1]
              IN [r |-> r2,
                  result |-> Result("Data", r2.current_event_type, n.row, Position(r2))]
         [] n.status = "NoObjectsToRead" ->
              [r |-> n.r, result |-> Result("Finished", "None", NoRow, NoOffset)]
         [] OTHER ->
              [r |-> n.r, result |-> Result(n.status, "None", NoRow, NoOffset)]

\* DeltaTableReader::new on a table whose latest version is `version` and
\* whose snapshot the library lists as `files`.
DeltaNew(version, files) ==
    [current_version |-> version,
     last_fully_read_version |-> NoVersion,
     reader_some |-> FALSE,
     reader |-> <<>>,
     parquet_files_queue |-> get_reader_actions(files),
     rows_read_within_version |-> 0,
     current_event_type |-> "Insert",
     examined |-> <<>>]

\* The fast skip of seek: whole files are dropped by their footer row count.
\* The footer of a file whose object is missing cannot be read.
RECURSIVE FastSkip(_, _, _)
FastSkip(r, n_rows_to_rewind, missing) ==
    IF r.parquet_files_queue = <<>> THEN [r |-> r, status |-> "Ok"]
    ELSE IF Head(r.parquet_files_queue).path \in missing THEN [r |-> r, status |-> "Io"]
    ELSE LET block_size == rows_in_file_count(Head(r.parquet_files_queue).path)
         IN IF r.rows_read_within_version + block_size <= n_rows_to_rewind
            THEN FastSkip([r EXCEPT !.rows_read_within_version = @ + block_size,
                                    !.parquet_files_queue = Tail(@)],
                          n_rows_to_rewind, missing)
            ELSE [r |-> r, status |-> "Ok"]

\* The slow skip of seek: rows_left_to_rewind calls of read_next_row_native(false).
RECURSIVE SlowSkip(_, _, _, _)
SlowSkip(r, lg, rows_left_to_rewind, missing) ==
    IF rows_left_to_rewind <= 0 THEN [r |-> r, status |-> "Ok"]
    ELSE LET n == read_next_row_native(r, lg, FALSE, missing)
         IN IF n.status # "Row" THEN [r |-> n.r, status |-> n.status]
            ELSE SlowSkip(n.r, lg, rows_left_to_rewind - 1, missing)

\* Reader::seek of DeltaTableReader with a DeltaTablePosition offset.
\* `lst` is the library's listing of the snapshots (version -> files).
DeltaSeek(r, lg, lst, offset, missing) ==
    LET r0 == [r EXCEPT !.reader_some = FALSE, !.reader = <<>>]
        loaded ==
            IF offset.last_fully_read_version # NoVersion
            THEN LET r1 == [r0 EXCEPT !.current_version = offset.last_fully_read_version]
                 IN IF r1.current_version > Len(lg)
                    THEN [r |-> r1, status |-> "DeltaTable"]
                    ELSE upgrade_table_version(r1, lg, FALSE)
            ELSE LET r1 == [r0 EXCEPT !.current_version = offset.version]
                 IN IF r1.current_version > Len(lg)
                    THEN [r |-> r1, status |-> "DeltaTable"]
                    ELSE [r |-> [r1 EXCEPT !.parquet_files_queue =
                                     get_reader_actions(lst[r1.current_version])],
                          status |-> "Ok"]
    IN IF loaded.status # "Ok" THEN loaded
       ELSE LET skipped == FastSkip([loaded.r EXCEPT !.rows_read_within_version = 0],
                                    offset.rows_read_within_version, missing)
                rows_left_to_rewind ==
                    offset.rows_read_within_version - skipped.r.rows_read_within_version
            IN IF skipped.status # "Ok" THEN skipped
               ELSE SlowSkip(skipped.r, lg, rows_left_to_rewind, missing)

\* frontier.get_offset(&OffsetKey::Empty): nothing, or an OffsetValue of
\* the variant `kind`; `position` is the payload of a DeltaTablePosition.
OffsetValue(kind, position) == [kind |-> kind, position |-> position]

\* seek() that drops the row iterator before it looks at the frontier.
DeltaSeekFrontier_resets(r, lg, lst, offset_value, missing) ==
    IF offset_value.kind # "DeltaTablePosition"
    THEN [r |-> [r EXCEPT !.reader_some = FALSE, !.reader = <<>>], status |-> "Ok"]
    ELSE DeltaSeek(r, lg, lst, offset_value.position, missing)

\* Reader::seek of DeltaTableReader: the let-else on the offset of the
\* frontier (371-382), then the seek to the position.
DeltaSeekFrontier(r, lg, lst, offset_value, missing) ==
    IF offset_value.kind # "DeltaTablePosition"
    THEN [r |-> r, status |-> "Ok"]
    ELSE DeltaSeek(r, lg, lst, offset_value.position, missing)



----------------------------------------------------------------------------
(* IcebergReader *)

\* Option<IcebergSnapshotId>::None
NoSnapshot == 0

\* FileScanTaskDescriptor::for_task: the key of a scan task.
for_task(task) ==
    [data_file_path |-> task.data_file_path, start |-> task.start, length |-> task.length]

\* A scan task of `length` rows of file `path` from row `start` on.
ScanTask(path, start, length) ==
    [data_file_path |-> path, start |-> start, length |-> length]

\* The rows the table's reader decodes from one scan task, in file order.
TaskRows(task) == [j \in 1..task.length |-> <<task.data_file_path, task.start + j>>]

IResult(type, event, row, snapshot_id) ==
    [type |-> type, event |-> event, row |-> row, snapshot_id |-> snapshot_id]

\* ReadResult::NewSource(IcebergMetadata::new(snapshot_id).into())
NewSource(snapshot_id) == IResult("NewSource", "None", NoRow, snapshot_id)

\* ReadResult::FinishedSource { commit_allowed: true }
FinishedSource == IResult("FinishedSource", "None", NoRow, NoSnapshot)

\* The collect() of a task list into the HashMap keyed by descriptor.
PlanMap(tasks) ==
    [key \in {for_task(t) : t \in tasks} |-> CHOOSE t \in tasks : for_task(t) = key]

\* Mutant of table_plans_difference: the plans are compared by file path.
table_plans_difference_by_path(model, other) ==
    {model[key] : key \in {k \in DOMAIN model :
        \A o \in DOMAIN other : o.data_file_path # k.data_file_path}}

\* table_plans_difference: the tasks of `model` whose key is not in `other`.
\* The Vec it returns follows the iteration order of a HashSet.
table_plans_difference(model, other) ==
    {model[key] : key \in DOMAIN model \ DOMAIN other}

\* Mutant of DiffOffset: the offset of a Data event is the snapshot the
\* reader had before the transition.
DiffOffset_previous(r, snapshot_id) == r.current_snapshot_id

\* The snapshot id wait_for_snapshot_update hands to create_version_diffs.
DiffOffset(r, snapshot_id) == snapshot_id

\* create_version_diffs: the rows of the tasks, task after task, as Data
\* events; an error when the object of a task's file is gone.
create_version_diffs(difference_tasks, event_type, snapshot_id, gone) ==
    IF \E i \in 1..Len(difference_tasks) : difference_tasks[i].data_file_path \in gone
    THEN [error |-> TRUE, diffs |-> <<>>]
    ELSE [error |-> FALSE,
          diffs |-> LET rows == Concat([i \in 1..Len(difference_tasks) |->
                                           TaskRows(difference_tasks[i])])
                    IN [i \in 1..Len(rows) |-> IResult("Data", event_type, rows[i], snapshot_id)]]

\* The markers around a non-empty diff.
WrapDiffs(diff_queue, snapshot_id) ==
    IF diff_queue # <<>>
    THEN <<NewSource(snapshot_id)>> \o diff_queue \o <<FinishedSource>>
    ELSE diff_queue

\* The tasks of a difference in the order in which the HashSet iterates.
InHashOrder(tasks, hash_order) ==
    LET Member(t) == t \in tasks IN SelectSeq(hash_order, Member)

\* A transition that takes the new snapshot id and keeps the old plan.
SnapshotTransition_idOnly(r, tbl, hash_order) ==
    LET available_snapshot_id == tbl.current
        updated_table_plan == PlanMap(tbl.plans[available_snapshot_id])
        insertion_tasks ==
            InHashOrder(table_plans_difference(updated_table_plan, r.current_table_plan),
                        hash_order)
        inserts == create_version_diffs(insertion_tasks, "Insert",
                                        DiffOffset(r, available_snapshot_id), tbl.gone)
        r1 == [r EXCEPT !.diff_queue = @ \o inserts.diffs]
        deletion_tasks ==
            InHashOrder(table_plans_difference(r.current_table_plan, updated_table_plan),
                        hash_order)
        deletes == create_version_diffs(deletion_tasks, "Delete",
                                        DiffOffset(r, available_snapshot_id), tbl.gone)
        r2 == [r1 EXCEPT !.diff_queue = @ \o deletes.diffs]
    IN IF inserts.error THEN [r |-> r, status |-> "Iceberg"]
       ELSE IF deletes.error THEN [r |-> r1, status |-> "Iceberg"]
       ELSE [r |-> [r2 EXCEPT !.diff_queue = WrapDiffs(@, available_snapshot_id),
                              !.current_snapshot_id = available_snapshot_id],
             status |-> "Ok"]

\* One iteration of the while loop of wait_for_snapshot_update that finds a
\* changed snapshot.  `hash_order` is the iteration order of the hash sets.
SnapshotTransition(r, tbl, hash_order) ==
    LET available_snapshot_id == tbl.current
        updated_table_plan == PlanMap(tbl.plans[available_snapshot_id])
        insertion_tasks ==
            InHashOrder(table_plans_difference(updated_table_plan, r.current_table_plan),
                        hash_order)
        inserts == create_version_diffs(insertion_tasks, "Insert",
                                        DiffOffset(r, available_snapshot_id), tbl.gone)
        r1 == [r EXCEPT !.diff_queue = @ \o inserts.diffs]
        deletion_tasks ==
            InHashOrder(table_plans_difference(r.current_table_plan, updated_table_plan),
                        hash_order)
        deletes == create_version_diffs(deletion_tasks, "Delete",
                                        DiffOffset(r, available_snapshot_id), tbl.gone)
        r2 == [r1 EXCEPT !.diff_queue = @ \o deletes.diffs]
    IN IF inserts.error THEN [r |-> r, status |-> "Iceberg"]
       ELSE IF deletes.error THEN [r |-> r1, status |-> "Iceberg"]
       ELSE [r |-> [r2 EXCEPT !.diff_queue = WrapDiffs(@, available_snapshot_id),
                              !.current_snapshot_id = available_snapshot_id,
                              !.current_table_plan = updated_table_plan],
             status |-> "Ok"]

\* wait_for_snapshot_update.  `catalog_ok` tells whether load_table and
\* plan_files answer.  The loop is left with a non-empty queue ("Ok"), with an
\* error, or stays in its sleep ("Blocked") until the catalog changes.
wait_for_snapshot_update(r, tbl, hash_order, catalog_ok) ==
    IF r.diff_queue # <<>> THEN [r |-> r, status |-> "Ok"]
    ELSE IF ~catalog_ok THEN [r |-> r, status |-> "Iceberg"]
    ELSE IF tbl.current = NoSnapshot \/ tbl.current = r.current_snapshot_id
    THEN [r |-> r, status |-> "Blocked"]
    ELSE LET t == SnapshotTransition(r, tbl, hash_order)
         IN IF t.status = "Ok" /\ t.r.diff_queue = <<>>
            THEN [r |-> t.r, status |-> "Blocked"]
            ELSE t

Finished == IResult("Finished", "None", NoRow, NoSnapshot)

Failure(error) == IResult(error, "None", NoRow, NoSnapshot)

\* read() that looks at is_initialized alone and not at the streaming mode.
IcebergRead_finishes(r, tbl, is_polling_enabled, waiting, hash_order, catalog_ok) ==
    IF r.diff_queue # <<>>
    THEN [r |-> [r EXCEPT !.diff_queue = Tail(@)], result |-> Head(r.diff_queue)]
    ELSE IF ~r.is_initialized
    THEN LET w == wait_for_snapshot_update([r EXCEPT !.is_initialized = TRUE], tbl,
                                           hash_order, catalog_ok)
         IN IF w.status = "Ok"
            THEN [r |-> [w.r EXCEPT !.diff_queue = Tail(@)], result |-> Head(w.r.diff_queue)]
            ELSE [r |-> w.r, result |-> Failure(w.status)]
    ELSE [r |-> r, result |-> Finished]

\* read() that never records that it has been initialized.
IcebergRead_uninitialized(r, tbl, is_polling_enabled, waiting, hash_order, catalog_ok) ==
    IF r.diff_queue # <<>>
    THEN [r |-> [r EXCEPT !.diff_queue = Tail(@)], result |-> Head(r.diff_queue)]
    ELSE IF waiting \/ is_polling_enabled \/ ~r.is_initialized
    THEN LET w == wait_for_snapshot_update(r, tbl, hash_order, catalog_ok)
         IN IF w.status = "Ok"
            THEN [r |-> [w.r EXCEPT !.diff_queue = Tail(@)], result |-> Head(w.r.diff_queue)]
            ELSE [r |-> w.r, result |-> Failure(w.status)]
    ELSE [r |-> r, result |-> Finished]

\* Reader::read of IcebergReader.  `waiting` says that the call is resumed
\* inside wait_for_snapshot_update, where it was blocked.
IcebergRead(r, tbl, is_polling_enabled, waiting, hash_order, catalog_ok) ==
    IF r.diff_queue # <<>>
    THEN [r |-> [r EXCEPT !.diff_queue = Tail(@)], result |-> Head(r.diff_queue)]
    ELSE IF waiting \/ is_polling_enabled \/ ~r.is_initialized
    THEN LET w == wait_for_snapshot_update([r EXCEPT !.is_initialized = TRUE], tbl,
                                           hash_order, catalog_ok)
         IN IF w.status = "Ok"
            THEN [r |-> [w.r EXCEPT !.diff_queue = Tail(@)], result |-> Head(w.r.diff_queue)]
            ELSE [r |-> w.r, result |-> Failure(w.status)]
    ELSE [r |-> r, result |-> Finished]

\* IcebergReader::new, once the table has been found in the catalog.
IcebergNew ==
    [current_table_plan |-> PlanMap({}),
     current_snapshot_id |-> NoSnapshot,
     diff_queue |-> <<>>,
     is_initialized |-> FALSE]

\* Mutant of IcebergSeek: the plan of the sought snapshot is not installed.
IcebergSeek_noPlan(r, tbl, snapshot_id, catalog_ok) ==
    IF ~catalog_ok \/ snapshot_id \notin DOMAIN tbl.plans
    THEN [r |-> r, status |-> "Iceberg"]
    ELSE [r |-> [r EXCEPT !.current_snapshot_id = snapshot_id], status |-> "Ok"]

\* Reader::seek of IcebergReader with an IcebergSnapshot offset.
IcebergSeek(r, tbl, snapshot_id, catalog_ok) ==
    IF ~catalog_ok \/ snapshot_id \notin DOMAIN tbl.plans
    THEN [r |-> r, status |-> "Iceberg"]
    ELSE [r |-> [r EXCEPT !.current_table_plan = PlanMap(tbl.plans[snapshot_id]),
                          !.current_snapshot_id = snapshot_id],
          status |-> "Ok"]

\* Reader::seek of IcebergReader: the let-else on the offset of the frontier
\* (468-474), then the seek to the snapshot.
IcebergSeekFrontier(r, tbl, offset_value, catalog_ok) ==
    IF offset_value.kind # "IcebergSnapshot"
    THEN [r |-> r, status |-> "Ok"]
    ELSE IcebergSeek(r, tbl, offset_value.position, catalog_ok)

----------------------------------------------------------------------------
(* The Format-D system: writers append commits, one reader is opened, read, *)
(* and once restarted from one of the offsets it returned.                  *)

Last(s) == s[Len(s)]

LatestVersion == Len(log)

LiveFiles == SnapshotFiles(log, LatestVersion)

DInit ==
    /\ log = <<>>
    /\ listing = <<>>
    /\ polling = FALSE
    /\ dr = DeltaNew(0, <<>>)
    /\ dpc = "closed"
    /\ dout = <<>>
    /\ firstRun = <<>>
    /\ seekTo = NoOffset
    /\ seekStatus = "none"
    /\ vacuumed = {}

\* A commit of the log carries a deletion vector.
HasDeletionVector(lg) ==
    \E v \in 1..Len(lg) : \E i \in 1..Len(lg[v]) : lg[v][i].deletion_vector

\* Commits are appended while the log is short, until the restart.  Nothing is
\* appended behind a commit with a deletion vector: no reader gets past it.
CanCommit ==
    /\ Len(log) < MaxVersion
    /\ seekStatus = "none"
    /\ ~HasDeletionVector(log)

Commit(actions) ==
    /\ CanCommit
    /\ log' = Append(log, actions)
    /\ UNCHANGED <<listing, polling, dr, dpc, dout, firstRun, seekTo, seekStatus>>
    /\ UNCHANGED <<vacuumed, ivars, pvars>>

\* DeltaBatchWriter::write_batch: one batch, one new file, one new version.
WriteBatch ==
    \E n \in 1..MaxRows : Commit(<<AddAction(FreshFile(log, n), TRUE), OtherAction>>)

\* A commit without file actions (table properties, protocol, commit info).
MetadataCommit == Commit(<<OtherAction>>)

\* Another writer removes a whole file.
DeleteFile ==
    \E f \in LiveFiles : Commit(<<RemoveAction(f, TRUE, FALSE)>>)

\* Another writer replaces a file: a compaction (no data change), an
\* overwrite, or a commit whose actions differ in their data_change flag.
RewriteFile ==
    \E f \in LiveFiles, dcr \in BOOLEAN, dca \in BOOLEAN :
        Commit(<<RemoveAction(f, dcr, FALSE), AddAction(FreshFile(log, f.n), dca)>>)

\* Another writer deletes rows of a file with a deletion vector, before or
\* after an Add of the same commit.
DeletionVectorCommit ==
    \E f \in LiveFiles :
        \/ Commit(<<AddAction(FreshFile(log, 1), TRUE), RemoveAction(f, TRUE, TRUE)>>)
        \/ Commit(<<RemoveAction(f, TRUE, TRUE), AddAction(FreshFile(log, 1), TRUE)>>)

\* The library's listing of the latest snapshot: the one already given for
\* this version, or any order of its files.
LatestListings ==
    IF LatestVersion \in DOMAIN listing THEN {listing[LatestVersion]}
    ELSE Orders(LiveFiles)

\* DeltaTableReader::new
Open ==
    /\ dpc = "closed"
    /\ \E pol \in BOOLEAN, files \in LatestListings :
          /\ polling' = pol
          /\ listing' = (LatestVersion :> files) @@ listing
          /\ dr' = DeltaNew(LatestVersion, files)
    /\ dpc' = "idle"
    /\ UNCHANGED <<log, dout, firstRun, seekTo, seekStatus>>
    /\ UNCHANGED <<vacuumed, ivars, pvars>>

IsTerminal(res) == res.type \notin {"Data", "Io"}

\* The reader has nothing more to return from the log as it is.
Drained ==
    /\ ~HasNextCommit(log, dr.current_version) \/ (dout # <<>> /\ Last(dout).type = "DeltaDeletionVectorsNotSupported")
    /\ \/ dpc = "blocked"
       \/ dpc = "idle" /\ dout # <<>> /\ IsTerminal(Last(dout))

\* read() is called again after a terminal result only once while the log
\* does not grow (a further call returns the same and changes nothing).
Repeated ==
    /\ Len(dout) >= 2
    /\ IsTerminal(Last(dout))
    /\ dout[Len(dout) - 1] = Last(dout)
    /\ Drained

\* Reader::read.  In polling mode a call that finds nothing stays inside the
\* loop of upgrade_table_version ("blocked") until a commit appears.
Read ==
    /\ \/ dpc = "idle" /\ ~Repeated
       \/ dpc = "blocked" /\ HasNextCommit(log, dr.current_version)
    /\ \E res \in {DeltaRead(dr, log, polling, vacuumed)} :
          /\ dr' = res.r
          /\ IF res.result.type = "Blocked"
             THEN dpc' = "blocked" /\ dout' = dout
             ELSE dpc' = "idle" /\ dout' = Append(dout, res.result)
    /\ UNCHANGED <<log, listing, polling, firstRun, seekTo, seekStatus>>
    /\ UNCHANGED <<vacuumed, ivars, pvars>>

IsData(res) == res.type = "Data"

\* The engine restarts: a new reader is opened on the same table and seek()
\* is called with the offset of the k-th Data event of the first run.  The
\* writers are quiet from then on, so both readers see the same table.
Restart ==
    /\ seekStatus = "none"
    /\ Drained
    /\ \E k \in 1..Len(dout), files \in LatestListings :
          /\ dout[k].type = "Data"
          /\ seekTo' = dout[k].offset
          /\ LET sought == DeltaSeek(DeltaNew(LatestVersion, files), log, listing,
                                     dout[k].offset, vacuumed)
             IN /\ dr' = sought.r
                /\ seekStatus' = sought.status
                /\ dpc' = IF sought.status = "Ok" THEN "idle" ELSE "failed"
    /\ firstRun' = SelectSeq(dout, IsData)
    /\ dout' = <<>>
    /\ UNCHANGED <<log, listing, polling>>
    /\ UNCHANGED <<vacuumed, ivars, pvars>>

DNext ==
    \/ WriteBatch
    \/ MetadataCommit
    \/ DeleteFile
    \/ RewriteFile
    \/ DeletionVectorCommit
    \/ Open
    \/ Read
    \/ Restart

\* The store loses objects: a vacuum deletes the objects of the files that
\* are no longer part of the latest snapshot.  download_object (137-150) and
\* the footer read of rows_in_file_count (332-340) fail on such a file.
Vacuum ==
    /\ dpc # "closed"
    /\ seekStatus = "none"
    /\ vacuumed' = UNION {SnapshotFiles(log, v) : v \in 0..Len(log)} \ LiveFiles
    /\ vacuumed' # vacuumed
    /\ UNCHANGED <<log, listing, polling, dr, dpc, dout, firstRun, seekTo, seekStatus>>
    /\ UNCHANGED <<ivars, pvars>>

\* The offsets a caller can pass to seek(): any version of the log, any
\* earlier version or none as the last fully read one, any row count up to
\* one more than a commit can hold.
Offsets ==
    {[version |-> v, rows_read_within_version |-> n, last_fully_read_version |-> l] :
        v \in 0..Len(log), n \in 0..MaxRows + 1, l \in {NoVersion} \cup 0..MaxVersion}

\* Reader::seek on the reader just opened, with an offset of the caller's
\* choice (a stored one, or one that does not fit the table).
SeekAt ==
    /\ dpc = "idle"
    /\ dout = <<>>
    /\ seekStatus = "none"
    /\ \E offset \in Offsets :
          /\ offset.last_fully_read_version < offset.version
          /\ \E files \in (IF offset.version \in DOMAIN listing
                            THEN {listing[offset.version]}
                            ELSE Orders(SnapshotFiles(log, offset.version))) :
                LET lst == (offset.version :> files) @@ listing
                    sought == DeltaSeekFrontier(dr, log, lst,
                                                OffsetValue("DeltaTablePosition", offset),
                                                vacuumed)
                IN /\ listing' = lst
                   /\ seekTo' = offset
                   /\ dr' = sought.r
                   /\ seekStatus' = sought.status
                   /\ dpc' = IF sought.status = "Ok" THEN "idle" ELSE "failed"
    /\ UNCHANGED <<log, polling, dout, firstRun>>
    /\ UNCHANGED <<vacuumed, ivars, pvars>>

\* The reader on a store that loses objects, sought to any offset.
DFNext ==
    \/ WriteBatch
    \/ MetadataCommit
    \/ DeleteFile
    \/ RewriteFile
    \/ DeletionVectorCommit
    \/ Open
    \/ Read
    \/ Vacuum
    \/ SeekAt


----------------------------------------------------------------------------
(* The Format-I system: the catalog's table, its writers, and one reader *)

IInit ==
    /\ snaps = [s \in {} |-> {}]
    /\ snapshot_log = <<>>
    /\ expired = {}
    /\ ipolling = FALSE
    /\ ir = IcebergNew
    /\ ipc = "closed"
    /\ iout = <<>>
    /\ isought = NoSnapshot

\* table.metadata().current_snapshot_id()
icur == IF snapshot_log = <<>> THEN NoSnapshot ELSE Last(snapshot_log)

\* The reader is not in the middle of a queue of events.  Its next step then
\* consults the catalog, so that a change of the table made while a queue is
\* being popped has the effect of the same change made after the last pop.
Quiescent == ir.diff_queue = <<>>

CanCommitSnapshot == Cardinality(DOMAIN snaps) < MaxCommits /\ Quiescent

\* The catalog answers load_table and plan_files; the store may have lost
\* the objects of data files (expired).
CatalogAnswers == TRUE

\* What load_table shows of the table.
Table == [current |-> icur, plans |-> snaps, gone |-> expired]

CurrentPlan == IF icur = NoSnapshot THEN {} ELSE snaps[icur]

AllPaths == UNION {{t.data_file_path : t \in snaps[s]} : s \in DOMAIN snaps}

\* A commit to the catalog: a new snapshot becomes the current one.  The
\* library draws the id of a snapshot at random.
CommitSnapshot(plan) ==
    /\ CanCommitSnapshot
    /\ \E id \in (1..MaxCommits) \ DOMAIN snaps :
          /\ snaps' = [s \in DOMAIN snaps \cup {id} |-> IF s = id THEN plan ELSE snaps[s]]
          /\ snapshot_log' = Append(snapshot_log, id)
    /\ UNCHANGED <<expired, ipolling, ir, ipc, iout, isought>>
    /\ UNCHANGED <<dvars, pvars>>

\* IcebergBatchWriter::write_batch: the data file of a batch of MaxRows rows,
\* appended with fast_append.
IcebergWriteBatch ==
    CommitSnapshot(CurrentPlan \cup {ScanTask(Cardinality(AllPaths) + 1, 0, MaxRows)})

\* Another writer commits a snapshot that drops at most one data file of the
\* current one and adds at most one new file of one row; a snapshot that
\* changes no file is one of the cases.
Overwrite ==
    \E removed \in {{}} \cup {{t} : t \in CurrentPlan}, added \in 0..1 :
        CommitSnapshot((CurrentPlan \ removed)
            \cup {ScanTask(Cardinality(AllPaths) + k, 0, 1) : k \in 1..added})

\* Another writer replaces the scan of a whole file by two scans of its parts.
SplitTask ==
    \E t \in CurrentPlan :
        /\ t.start = 0
        /\ t.length >= 2
        /\ CommitSnapshot((CurrentPlan \ {t})
              \cup {ScanTask(t.data_file_path, 0, 1),
                    ScanTask(t.data_file_path, 1, t.length - 1)})

\* The table is rolled back to an earlier snapshot.
Rollback ==
    /\ Len(snapshot_log) <= MaxCommits
    /\ Quiescent
    /\ \E s \in DOMAIN snaps \ {icur} : snapshot_log' = Append(snapshot_log, s)
    /\ UNCHANGED <<snaps, expired, ipolling, ir, ipc, iout, isought>>
    /\ UNCHANGED <<dvars, pvars>>

\* Maintenance of the table deletes from the store the objects of the data
\* files that the current snapshot does not use.
ExpireObjects ==
    /\ Quiescent
    /\ expired' = AllPaths \ {t.data_file_path : t \in CurrentPlan}
    /\ expired' # expired
    /\ UNCHANGED <<snaps, snapshot_log, ipolling, ir, ipc, iout, isought>>
    /\ UNCHANGED <<dvars, pvars>>

IcebergOpen ==
    /\ ipc = "closed"
    /\ ipolling' \in BOOLEAN
    /\ ir' = IcebergNew
    /\ ipc' = "idle"
    /\ UNCHANGED <<snaps, snapshot_log, expired, iout, isought>>
    /\ UNCHANGED <<dvars, pvars>>

\* seek() on the fresh reader, before its first read(), with a snapshot id
\* of the table or one the table does not have, the catalog answering or
\* not.  After a failed seek the reader is not used.
Seek ==
    /\ ipc = "idle"
    /\ iout = <<>>
    /\ ir = IcebergNew
    /\ isought = NoSnapshot
    /\ \E s \in 1..MaxCommits, catalog_ok \in BOOLEAN :
          LET sought == IcebergSeekFrontier(ir, Table, OffsetValue("IcebergSnapshot", s),
                                            catalog_ok)
          IN /\ ir' = sought.r
             /\ IF sought.status = "Ok"
                THEN isought' = s /\ ipc' = ipc
                ELSE isought' = isought /\ ipc' = "failed"
    /\ UNCHANGED <<snaps, snapshot_log, expired, ipolling, iout>>
    /\ UNCHANGED <<dvars, pvars>>

IsFailure(res) == res.type = "Iceberg"

\* The tasks in which the current snapshot and the reader's plan differ.
Changed ==
    LET updated == PlanMap(CurrentPlan)
    IN table_plans_difference(updated, ir.current_table_plan)
           \cup table_plans_difference(ir.current_table_plan, updated)

IsFinished(res) == res.type = "Finished"

\* read(), or its continuation when the call sleeps in
\* wait_for_snapshot_update.  A call that sleeps returns nothing.
IcebergReadStep ==
    /\ ipc \in {"idle", "blocked"}
    /\ Len(SelectSeq(iout, IsFinished)) <= 1
    /\ \E hash_order \in Orders(Changed) :
            LET res == IcebergRead(ir, Table, ipolling, ipc = "blocked",
                                   hash_order, CatalogAnswers)
            IN /\ IsFailure(res.result) => Len(SelectSeq(iout, IsFailure)) < MaxFailures
               /\ ir' = res.r
               /\ IF res.result.type = "Blocked"
                  THEN ipc' = "blocked" /\ iout' = iout
                  ELSE ipc' = "idle" /\ iout' = Append(iout, res.result)
    /\ UNCHANGED <<snaps, snapshot_log, expired, ipolling, isought>>
    /\ UNCHANGED <<dvars, pvars>>

INext ==
    \/ IcebergWriteBatch
    \/ Overwrite
    \/ SplitTask
    \/ Rollback
    \/ ExpireObjects
    \/ IcebergOpen
    \/ Seek
    \/ IcebergReadStep

\* Both tables are empty and no reader has been opened.
----------------------------------------------------------------------------
(* Paths of data files: strings as sequences of characters *)

\* The characters of the strings: the separator and two others.
PathChars == {"/", "t", "f"}

\* The non-empty strings of n characters at most.
Strings(n) == UNION {[1..k -> PathChars] : k \in 1..n}

\* str::starts_with
starts_with(s, prefix) ==
    Len(prefix) <= Len(s) /\ SubSeq(s, 1, Len(prefix)) = prefix

\* str::ends_with(char)
ends_with(s, c) == s # <<>> /\ s[Len(s)] = c

\* DeltaTableReader::ensure_absolute_path_with_base
ensure_absolute_path_with_base(p, base) ==
    IF starts_with(p, base) THEN p
    ELSE IF ends_with(base, "/") THEN base \o p
    ELSE base \o <<"/">> \o p

\* No path has been normalized.
NoPath == <<"none">>

PathIdle ==
    /\ file_path = NoPath
    /\ base_path = NoPath
    /\ absolute = NoPath
    /\ again = NoPath

----------------------------------------------------------------------------
(* Types of columns.  A Type is the sequence of its constructors from the   *)
(* outside in: Optional(List(Int)) is <<"Optional", "List", "Int">>.         *)

\* The variants of Type without an argument.
Leaves == {"Any", "Bool", "Int", "Float", "Pointer", "String", "Bytes",
           "DateTimeNaive", "DateTimeUtc", "Duration", "Json", "PyObjectWrapper"}

\* The variants that wrap a type.
Wrappers == {"Optional", "Array", "Tuple", "List"}

\* The types with n wrappers at most.
Types(n) == UNION {{w \o <<l>> : w \in [1..k -> Wrappers], l \in Leaves} : k \in 0..n}

\* Ok(Primitive(primitive))
Mapped(primitive) == [status |-> "Ok", primitive |-> primitive, unsupported |-> <<>>]

\* Err(WriteError::UnsupportedType(type_.clone()))
UnsupportedType(type_) ==
    [status |-> "UnsupportedType", primitive |-> "None", unsupported |-> type_]

\* A mapping that has no case for Optional.
delta_table_primitive_type_noOptional(type_) ==
    LET k == Head(type_)
    IN CASE k = "Bool" -> Mapped("Boolean")
         [] k = "Float" -> Mapped("Double")
         [] k \in {"String", "Json"} -> Mapped("String")
         [] k = "Bytes" -> Mapped("Binary")
         [] k = "DateTimeNaive" -> Mapped("TimestampNtz")
         [] k = "DateTimeUtc" -> Mapped("Timestamp")
         [] k \in {"Int", "Duration"} -> Mapped("Long")
         [] OTHER -> UnsupportedType(type_)

\* DeltaBatchWriter::delta_table_primitive_type
RECURSIVE delta_table_primitive_type(_)
delta_table_primitive_type(type_) ==
    LET k == Head(type_)
    IN CASE k = "Bool" -> Mapped("Boolean")
         [] k = "Float" -> Mapped("Double")
         [] k \in {"String", "Json"} -> Mapped("String")
         [] k = "Bytes" -> Mapped("Binary")
         [] k = "DateTimeNaive" -> Mapped("TimestampNtz")
         [] k = "DateTimeUtc" -> Mapped("Timestamp")
         [] k \in {"Int", "Duration"} -> Mapped("Long")
         [] k = "Optional" -> delta_table_primitive_type(Tail(type_))
         [] k \in {"Any", "Array", "Tuple", "List", "PyObjectWrapper", "Pointer"} ->
              UnsupportedType(type_)

\* IcebergTableParams::iceberg_type
RECURSIVE iceberg_type(_)
iceberg_type(type_) ==
    LET k == Head(type_)
    IN CASE k = "Bool" -> Mapped("Boolean")
         [] k = "Float" -> Mapped("Double")
         [] k \in {"String", "Json"} -> Mapped("String")
         [] k = "Bytes" -> Mapped("Binary")
         [] k = "DateTimeNaive" -> Mapped("Timestamp")
         [] k = "DateTimeUtc" -> Mapped("Timestamptz")
         [] k \in {"Int", "Duration"} -> Mapped("Long")
         [] k = "Optional" -> iceberg_type(Tail(type_))
         [] k \in {"Any", "Array", "Tuple", "List", "PyObjectWrapper", "Pointer"} ->
              UnsupportedType(type_)

\* No type has been mapped.
NotMapped == [status |-> "NotMapped", primitive |-> "None", unsupported |-> <<>>]

TypeIdle ==
    /\ engine_type = <<"Any">>
    /\ delta_mapped = NotMapped
    /\ iceberg_mapped = NotMapped

\* seek() has not been called with a frontier without an offset for the reader.
NoFrontier == "NoFrontier"

FrontierIdle == frontier = NoFrontier

----------------------------------------------------------------------------
(* The catalog of the Format-I tables and the constructors that use it *)

\* IcebergDBParams.namespace of the connectors.
NamespaceIdents == {"n1", "n2"}

\* IcebergTableParams.name of the connectors.
TableNames == {"t1", "t2"}

\* The catalog as a value.
Catalog(nss, tbls) == [namespaces |-> nss, tables |-> tbls]

\* Which requests the catalog answers: get_namespace, create_namespace,
\* load_table, create_table.  A request that is not answered is an Err.
Answers == [get : BOOLEAN, create : BOOLEAN, load : BOOLEAN]

\* IcebergDBParams::ensure_namespace: the namespace when get_namespace
\* returns it, otherwise whatever create_namespace returns.
ensure_namespace(cat, ident, answers) ==
    IF answers.get /\ ident \in cat.namespaces
    THEN [cat |-> cat, status |-> "Ok"]
    ELSE IF answers.create /\ ident \notin cat.namespaces
    THEN [cat |-> [cat EXCEPT !.namespaces = @ \cup {ident}], status |-> "Ok"]
    ELSE [cat |-> cat, status |-> "Iceberg"]

\* IcebergTableParams::ensure_table: the table when load_table returns it,
\* otherwise whatever create_table returns.
ensure_table(cat, ident, name, answers) ==
    IF answers.load /\ <<ident, name>> \in cat.tables
    THEN [cat |-> cat, status |-> "Ok"]
    ELSE IF answers.create /\ <<ident, name>> \notin cat.tables
    THEN [cat |-> [cat EXCEPT !.tables = @ \cup {<<ident, name>>}], status |-> "Ok"]
    ELSE [cat |-> cat, status |-> "Iceberg"]

\* IcebergBatchWriter::new
IcebergBatchWriterNew(cat, ident, name, answers) ==
    LET ns == ensure_namespace(cat, ident, answers)
    IN IF ns.status # "Ok" THEN ns
       ELSE ensure_table(ns.cat, ident, name, answers)

\* IcebergReader::new: ensure_namespace, then load_table as the check that
\* the table exists.
IcebergReaderNew(cat, ident, name, answers) ==
    LET ns == ensure_namespace(cat, ident, answers)
    IN IF ns.status # "Ok" THEN ns
       ELSE IF answers.load /\ <<ident, name>> \in ns.cat.tables
       THEN [cat |-> ns.cat, status |-> "Ok"]
       ELSE [cat |-> ns.cat, status |-> "Iceberg"]

\* The catalog is empty and no reader has been constructed on it.
CatalogIdle ==
    /\ namespaces = {}
    /\ tables = {}
    /\ opened = <<>>

\* Any path of an action and any location of a table.
PathInit ==
    /\ DInit /\ IInit /\ TypeIdle /\ FrontierIdle /\ CatalogIdle
    /\ file_path \in Strings(MaxPathLen)
    /\ base_path \in Strings(MaxPathLen)
    /\ absolute = NoPath
    /\ again = NoPath

\* The path of an action is made absolute (get_reader_actions and the scan
\* of a commit in upgrade_table_version).
Normalize ==
    /\ absolute = NoPath
    /\ absolute' = ensure_absolute_path_with_base(file_path, base_path)
    /\ UNCHANGED <<file_path, base_path, again>>
    /\ UNCHANGED <<engine_type, delta_mapped, iceberg_mapped, frontier, namespaces, tables, opened>>
    /\ UNCHANGED <<dvars, ivars>>

\* The path that was made absolute is handed to the function once more.
Renormalize ==
    /\ absolute # NoPath
    /\ again = NoPath
    /\ again' = ensure_absolute_path_with_base(absolute, base_path)
    /\ UNCHANGED <<file_path, base_path, absolute>>
    /\ UNCHANGED <<engine_type, delta_mapped, iceberg_mapped, frontier, namespaces, tables, opened>>
    /\ UNCHANGED <<dvars, ivars>>

PathNext == Normalize \/ Renormalize

SpecPath == PathInit /\ [][PathNext]_vars

\* Any type of a column of a table to write.
TypeInit ==
    /\ DInit /\ IInit /\ PathIdle /\ FrontierIdle /\ CatalogIdle
    /\ engine_type \in Types(MaxDepth)
    /\ delta_mapped = NotMapped
    /\ iceberg_mapped = NotMapped

\* The schema of a Delta table is built for a column of the type.
MapDelta ==
    /\ delta_mapped = NotMapped
    /\ delta_mapped' = delta_table_primitive_type(engine_type)
    /\ UNCHANGED <<engine_type, iceberg_mapped>>
    /\ UNCHANGED <<file_path, base_path, absolute, again, frontier, namespaces, tables, opened>>
    /\ UNCHANGED <<dvars, ivars>>

\* The schema of an Iceberg table is built for a column of the type.
MapIceberg ==
    /\ iceberg_mapped = NotMapped
    /\ iceberg_mapped' = iceberg_type(engine_type)
    /\ UNCHANGED <<engine_type, delta_mapped>>
    /\ UNCHANGED <<file_path, base_path, absolute, again, frontier, namespaces, tables, opened>>
    /\ UNCHANGED <<dvars, ivars>>

TypeNext == MapDelta \/ MapIceberg

SpecType == TypeInit /\ [][TypeNext]_vars

\* seek() of the D-reader with a frontier that has no offset for the reader,
\* or an offset of another storage, at any point between two calls of read().
DeltaSeekEmpty ==
    /\ dpc = "idle"
    /\ frontier = NoFrontier
    /\ \E kind \in {"None", "IcebergSnapshot"} :
          LET sought == DeltaSeekFrontier(dr, log, listing, OffsetValue(kind, NoOffset),
                                          vacuumed)
          IN /\ dr' = sought.r
             /\ dpc' = IF sought.status = "Ok" THEN dpc ELSE "failed"
             /\ frontier' = kind
    /\ UNCHANGED <<log, listing, polling, dout, firstRun, seekTo, seekStatus, vacuumed>>
    /\ UNCHANGED <<file_path, base_path, absolute, again, engine_type, delta_mapped,
                   iceberg_mapped, namespaces, tables, opened>>
    /\ UNCHANGED ivars

\* The same for the I-reader.
IcebergSeekEmpty ==
    /\ ipc = "idle"
    /\ frontier = NoFrontier
    /\ \E kind \in {"None", "DeltaTablePosition"} :
          LET sought == IcebergSeekFrontier(ir, Table, OffsetValue(kind, NoSnapshot),
                                            CatalogAnswers)
          IN /\ ir' = sought.r
             /\ ipc' = IF sought.status = "Ok" THEN ipc ELSE "failed"
             /\ frontier' = kind
    /\ UNCHANGED <<snaps, snapshot_log, expired, ipolling, iout, isought>>
    /\ UNCHANGED <<file_path, base_path, absolute, again, engine_type, delta_mapped,
                   iceberg_mapped, namespaces, tables, opened>>
    /\ UNCHANGED dvars

\* One reader of either format is run from its construction on, on a store
\* that keeps its objects, and seek() is called on it once with a frontier
\* that holds nothing for it.
SeekNext ==
    \/ IInit /\ (WriteBatch \/ MetadataCommit \/ DeleteFile \/ RewriteFile
                  \/ DeletionVectorCommit \/ Open \/ Read \/ DeltaSeekEmpty)
    \/ DInit /\ (IcebergWriteBatch \/ Overwrite \/ Rollback \/ IcebergOpen \/ Seek
                  \/ IcebergReadStep \/ IcebergSeekEmpty)

PathTypeFrame ==
    UNCHANGED <<file_path, base_path, absolute, again, engine_type, delta_mapped,
                iceberg_mapped, frontier>>

\* A writer is constructed for a table of the catalog.
WriterNew ==
    /\ \E ident \in NamespaceIdents, name \in TableNames, answers \in Answers :
          LET made == IcebergBatchWriterNew(Catalog(namespaces, tables), ident, name, answers)
          IN /\ namespaces' = made.cat.namespaces
             /\ tables' = made.cat.tables
             /\ made.cat # Catalog(namespaces, tables)
    /\ UNCHANGED opened
    /\ PathTypeFrame
    /\ UNCHANGED <<dvars, ivars>>

\* Another client of the catalog drops a table.
DropTable ==
    /\ \E t \in tables : tables' = tables \ {t}
    /\ UNCHANGED <<namespaces, opened>>
    /\ PathTypeFrame
    /\ UNCHANGED <<dvars, ivars>>

\* Another client of the catalog drops a namespace that holds no table.
DropNamespace ==
    /\ \E ident \in namespaces :
          /\ \A t \in tables : t[1] # ident
          /\ namespaces' = namespaces \ {ident}
    /\ UNCHANGED <<tables, opened>>
    /\ PathTypeFrame
    /\ UNCHANGED <<dvars, ivars>>

\* A reader is constructed for a table name in a namespace.
ReaderNew ==
    /\ Len(opened) < MaxOpens
    /\ \E ident \in NamespaceIdents, name \in TableNames, answers \in Answers :
          LET made == IcebergReaderNew(Catalog(namespaces, tables), ident, name, answers)
          IN /\ namespaces' = made.cat.namespaces
             /\ tables' = made.cat.tables
             /\ opened' = Append(opened, [namespace |-> ident, name |-> name,
                                          status |-> made.status])
    /\ PathTypeFrame
    /\ UNCHANGED <<dvars, ivars>>

CatalogNext == WriterNew \/ DropTable \/ DropNamespace \/ ReaderNew

Init == DInit /\ IInit /\ PathIdle /\ TypeIdle /\ FrontierIdle /\ CatalogIdle

SpecCatalog == Init /\ [][CatalogNext]_vars

SpecSeek == Init /\ [][SeekNext]_vars

SpecD == Init /\ [][DNext]_vars

SpecI == Init /\ [][INext]_vars

SpecDF == Init /\ [][DFNext]_vars

\* One reader of either format is run: the table and reader of the other
\* format stay as they are at the start.
EitherNext ==
    \/ IInit /\ DNext
    \/ DInit /\ INext

SpecEither == Init /\ [][EitherNext]_vars

----------------------------------------------------------------------------
(* Vocabulary of the Format-D properties *)

DataOf(results) == SelectSeq(results, IsData)

\* The version at which the first reader was opened.
OpenVersion == CHOOSE v \in DOMAIN listing : TRUE

Opened == dpc # "closed"

Restarted == seekStatus # "none"

\* Position of the Data event of the first run whose offset was sought.
SoughtIndex == CHOOSE k \in 1..Len(firstRun) : firstRun[k].offset = seekTo

\* The Data events the first run returned after the sought one.
Remainder == SubSeq(firstRun, SoughtIndex + 1, Len(firstRun))

IsPrefix(s, t) == Len(s) <= Len(t) /\ \A i \in 1..Len(s) : s[i] = t[i]

\* The offset lies strictly inside a file of its version: seek has to pull
\* rows through the row iterator to get there.
MidFile(offset) ==
    /\ Restarted
    /\ \E k \in 1..Len(firstRun) :
          /\ firstRun[k].offset = offset
          /\ k < Len(firstRun)
          /\ firstRun[k + 1].row[1] = firstRun[k].row[1]
          /\ firstRun[k + 1].offset.version = offset.version

----------------------------------------------------------------------------
(* C1: replay equivalence.  A new reader on which seek(o_k) succeeded       *)
(* returns, Data event by Data event, what the first run returned after     *)
(* e_k (event type, row and offset), and has returned all of it when it is  *)
(* drained.                                                                 *)
C1_ReplayEquivalence ==
    Restarted =>
        /\ seekStatus = "Ok"
        /\ IsPrefix(DataOf(dout), Remainder)
        /\ Drained => DataOf(dout) = Remainder

(* C2: after seek((version, n, last)) returned Ok the reader stands at      *)
(* (version, n, last), and the first Data event of that version returned    *)
(* afterwards carries n + 1.                                                *)
C2_SeekRestoresPosition ==
    seekStatus = "Ok" =>
        /\ dout = <<>> => Position(dr) = seekTo
        /\ \A i \in 1..Len(dout) :
              (/\ IsData(dout[i])
               /\ \A j \in 1..(i - 1) : ~IsData(dout[j])
               /\ dout[i].offset.version = seekTo.version)
              => dout[i].offset.rows_read_within_version
                     = seekTo.rows_read_within_version + 1

----------------------------------------------------------------------------
(* Vocabulary: what a log says a reader should return *)

\* The rows of file f, each with the event type it is returned with.
FileEvents(type, f) == [j \in 1..f.n |-> <<type, <<f.id, j>>>>]

IsFileAction(a) == a.kind \in {"add", "remove"}

\* A commit with an Add or Remove whose data_change flag is set.
DataChanging(acts) ==
    \E i \in 1..Len(acts) : IsFileAction(acts[i]) /\ acts[i].data_change

CarriesVector(acts) == \E i \in 1..Len(acts) : acts[i].deletion_vector

\* The events of one commit: the rows of its Remove and Add actions, in the
\* order of the actions.
CommitEvents(acts) ==
    LET fa == SelectSeq(acts, IsFileAction)
    IN Concat([i \in 1..Len(fa) |->
                  FileEvents(IF fa[i].kind = "add" THEN "Insert" ELSE "Delete", fa[i].path)])

\* The (event type, row) pairs of the Data events among the results.
EventsOf(results) ==
    LET d == DataOf(results) IN [i \in 1..Len(d) |-> <<d[i].event, d[i].row>>]

\* The version of the commit that carries a deletion vector.
VectorVersion == CHOOSE v \in 1..Len(log) : CarriesVector(log[v])

\* The commits after the version the reader was opened at, up to the one
\* with a deletion vector (excluded).
CommitsToRead ==
    SubSeq(log, OpenVersion + 1,
           IF HasDeletionVector(log) /\ VectorVersion > OpenVersion
           THEN VectorVersion - 1 ELSE Len(log))

\* The events of the snapshot the reader was opened on.
SnapshotEvents ==
    Concat([i \in 1..Len(listing[OpenVersion]) |->
               FileEvents("Insert", listing[OpenVersion][i])])

----------------------------------------------------------------------------
(* C3: offset monotonicity.  Of two Data events one reader returns one      *)
(* after the other, the later has the same version and the next row count,  *)
(* or a greater version and row count 1.                                    *)
C3_OffsetMonotone ==
    LET d == DataOf(dout)
    IN \A i \in 1..(Len(d) - 1) :
          LET a == d[i].offset
              b == d[i + 1].offset
          IN \/ /\ b.version = a.version
                /\ b.rows_read_within_version = a.rows_read_within_version + 1
             \/ /\ b.version > a.version
                /\ b.rows_read_within_version = 1

\* A reader has returned two rows of one version and then a row of the next.
C3_Witness ==
    LET d == DataOf(dout)
    IN \E i \in 1..(Len(d) - 2) :
          /\ d[i + 1].offset.version = d[i].offset.version
          /\ d[i + 2].offset.version > d[i + 1].offset.version

----------------------------------------------------------------------------
(* C8: round trip *)

\* Every commit of the log is one write_batch of the writer.
OnlyBatches ==
    \A v \in 1..Len(log) :
        /\ Len(log[v]) = 2
        /\ log[v][1].kind = "add" /\ log[v][1].data_change
        /\ log[v][2].kind = "other"

\* A one-shot reader opened after the batches were written has returned
\* Finished.
RoundTripDone ==
    /\ Opened /\ ~Restarted /\ ~polling
    /\ OnlyBatches
    /\ OpenVersion = Len(log)
    /\ dout # <<>> /\ Last(dout).type = "Finished"

\* The rows written, batch after batch in write order.
Written == Concat([v \in 1..Len(log) |-> FileEvents("Insert", log[v][1].path)])

(* C8 as stated: the reader returns the batches in write order.             *)
C8_RoundTripWriteOrder == RoundTripDone => EventsOf(dout) = Written

(* C8 amended: the reader returns every written row exactly once as an      *)
(* Insert, the rows of a batch together and in their order; the batches     *)
(* come in the order in which the library lists the files of the snapshot.  *)
C8_RoundTrip ==
    RoundTripDone =>
        /\ EventsOf(dout) = SnapshotEvents
        /\ Range(listing[OpenVersion]) = {log[v][1].path : v \in 1..Len(log)}
        /\ Len(listing[OpenVersion]) = Len(log)

C8_Witness == RoundTripDone /\ Len(log) = 2 /\ Len(EventsOf(dout)) >= 3

----------------------------------------------------------------------------
(* C9: a commit without data change.  No Data event carries the version of *)
(* such a commit, the events returned are those of the data-changing        *)
(* commits alone, and a drained reader stands at the last version of the    *)
(* log with the counters of a version transition.                           *)
C9_MetadataOnlyInvisible ==
    (Opened /\ ~Restarted) =>
        /\ \A i \in 1..Len(dout) :
              (IsData(dout[i]) /\ dout[i].offset.last_fully_read_version # NoVersion)
              => DataChanging(log[dout[i].offset.version])
        /\ IsPrefix(EventsOf(dout),
                    SnapshotEvents
                    \o Concat([i \in 1..Len(SelectSeq(CommitsToRead, DataChanging)) |->
                                  CommitEvents(SelectSeq(CommitsToRead, DataChanging)[i])]))
        /\ (Drained /\ ~HasDeletionVector(log)) =>
              /\ dr.current_version = Len(log)
              /\ Len(log) > OpenVersion =>
                    /\ dr.last_fully_read_version = Len(log) - 1
                    /\ ~DataChanging(log[Len(log)]) => dr.rows_read_within_version = 0

\* The reader has gone past a commit whose Add/Remove actions all have
\* data_change = false, after returning rows.
C9_Witness ==
    /\ Opened /\ ~Restarted /\ dout # <<>>
    /\ \E v \in (OpenVersion + 1)..Len(log) :
          /\ \E i \in 1..Len(log[v]) : IsFileAction(log[v][i])
          /\ ~DataChanging(log[v])
          /\ dr.current_version >= v

----------------------------------------------------------------------------
(* C10: deletion vectors *)

\* The reader has nothing left of the versions it has read, and from its
\* version on only commits without data change precede the commit with the
\* deletion vector: the next read() reaches that commit.
ReachesVector ==
    /\ Opened /\ dpc # "failed"
    /\ HasDeletionVector(log)
    /\ dr.current_version < VectorVersion
    /\ dr.parquet_files_queue = <<>> /\ dr.reader = <<>>
    /\ \A v \in (dr.current_version + 1)..(VectorVersion - 1) : ~DataChanging(log[v])

\* No Data event comes from the commit with the deletion vector: none has
\* its version or a later one, none inserts a file it adds or deletes a file
\* it removes.
NoRowOfVectorCommit(results) ==
    \A i \in 1..Len(results) :
        IsData(results[i]) =>
            /\ results[i].offset.version < VectorVersion
            /\ \A j \in 1..Len(log[VectorVersion]) :
                  LET a == log[VectorVersion][j]
                  IN ~(/\ results[i].row[1] = a.path.id
                       /\ results[i].event = IF a.kind = "add" THEN "Insert" ELSE "Delete")

(* C10: a reader opened before a commit with a deletion vector never gets   *)
(* past it and never returns a row of a file of that commit, and the read() *)
(* that reaches the commit returns DeltaDeletionVectorsNotSupported.        *)
C10_DeletionVectorRejected ==
    /\ [](  (Opened /\ HasDeletionVector(log) /\ OpenVersion < VectorVersion) =>
              /\ dr.current_version < VectorVersion
              /\ NoRowOfVectorCommit(dout)
              /\ NoRowOfVectorCommit(firstRun))
    /\ [][ (ReachesVector /\ seekStatus' = seekStatus /\ <<dr, dpc, dout>>' # <<dr, dpc, dout>>)
           => /\ Len(dout') = Len(dout) + 1
              /\ Last(dout').type = "DeltaDeletionVectorsNotSupported" ]_vars

\* read() has returned the error for a commit that lists an Add before the
\* Remove with the deletion vector.
C10_Witness ==
    /\ dout # <<>> /\ Last(dout).type = "DeltaDeletionVectorsNotSupported"
    /\ log[VectorVersion][1].kind = "add"
    /\ log[VectorVersion][2].deletion_vector


----------------------------------------------------------------------------
(* Vocabulary of the properties of the Format-I reader *)

IsIData(res) == res.type = "Data"

IsInsert(res) == res.type = "Data" /\ res.event = "Insert"

IsDelete(res) == res.type = "Data" /\ res.event = "Delete"

IsEvent(res) == res.type \in {"NewSource", "Data", "FinishedSource"}

\* The tasks of a plan map.
TasksOf(plan) == {plan[key] : key \in DOMAIN plan}

RowsOfTasks(tasks) == UNION {Range(TaskRows(t)) : t \in tasks}

RowCount(tasks) == Cardinality(UNION {{<<t, j>> : j \in 1..t.length} : t \in tasks})

RowsIn(results) == {results[i].row : i \in 1..Len(results)}

\* `produced` is the event list of the diff from the task set P to the task
\* set P2 under snapshot id `id`: nothing when no task differs; otherwise
\* NewSource(id), one Insert for each row of each task of P2 \ P, then one
\* Delete for each row of each task of P \ P2, all with offset `id`, and
\* FinishedSource; no row of a task of both plans occurs.
ExactDiff(P, P2, produced, id) ==
    LET ins == SelectSeq(produced, IsInsert)
        del == SelectSeq(produced, IsDelete)
    IN IF P2 \ P = {} /\ P \ P2 = {}
       THEN produced = <<>>
       ELSE /\ produced = <<NewSource(id)>> \o ins \o del \o <<FinishedSource>>
            /\ RowsIn(ins) = RowsOfTasks(P2 \ P)
            /\ Len(ins) = RowCount(P2 \ P)
            /\ RowsIn(del) = RowsOfTasks(P \ P2)
            /\ Len(del) = RowCount(P \ P2)
            /\ \A i \in 1..Len(produced) :
                  IsIData(produced[i]) => produced[i].snapshot_id = id
            /\ \A t \in P \cap P2 : \A i \in 1..Len(produced) :
                  IsIData(produced[i]) => produced[i].row \notin Range(TaskRows(t))

\* What a step of read() has produced: the result it returned, if any, and
\* the queue it left.
Produced ==
    (IF iout' # iout THEN <<Last(iout')>> ELSE <<>>) \o ir'.diff_queue

\* A step in which the reader completes a snapshot transition.
TransitionStep ==
    /\ ipc # "closed"
    /\ ipc' # "closed"
    /\ isought' = isought
    /\ ir'.current_snapshot_id # ir.current_snapshot_id

Sought == isought # NoSnapshot

----------------------------------------------------------------------------
\* C4: a snapshot transition of the Format-I reader from plan P to plan P2
\* produces exactly one Insert for each row of each task of P2 \ P and one
\* Delete for each row of each task of P \ P2, the difference being taken on
\* the key (data_file_path, start, length), and no event for a task that is
\* in both plans; the rows of no task are both inserted and deleted.
C4_SetDifference ==
    [][TransitionStep =>
          ExactDiff(TasksOf(ir.current_table_plan), snaps[ir'.current_snapshot_id],
                    Produced, ir'.current_snapshot_id)]_vars

\* A transition has just produced Insert events and Delete events.
C4_Witness ==
    /\ iout # <<>>
    /\ Last(iout).type = "NewSource"
    /\ \E i \in 1..Len(ir.diff_queue) : IsInsert(ir.diff_queue[i])
    /\ \E i \in 1..Len(ir.diff_queue) : IsDelete(ir.diff_queue[i])

----------------------------------------------------------------------------
\* The events (NewSource, Data, FinishedSource) of `results` are groups
\* NewSource, Inserts, Deletes, FinishedSource with at least one Data event
\* each; `mode` is the place in the group: "out", "new", "ins" or "del".
RECURSIVE Bracketed(_, _)
Bracketed(results, mode) ==
    IF results = <<>> THEN TRUE
    ELSE LET e == Head(results)
         IN CASE e.type = "NewSource" -> mode = "out" /\ Bracketed(Tail(results), "new")
              [] IsInsert(e) -> mode \in {"new", "ins"} /\ Bracketed(Tail(results), "ins")
              [] IsDelete(e) -> mode \in {"new", "ins", "del"} /\ Bracketed(Tail(results), "del")
              [] OTHER -> mode \in {"ins", "del"} /\ Bracketed(Tail(results), "out")

\* C5: in the results of read() of a Format-I reader every transition with
\* events is NewSource, Inserts, Deletes, FinishedSource in this order, a
\* transition without a row has no marker, and every Data event lies between
\* a NewSource and its FinishedSource.
C5_MarkerBracketing == Bracketed(SelectSeq(iout, IsEvent), "out")


----------------------------------------------------------------------------
\* The reader that seek(isought) leaves.
SoughtReader ==
    [IcebergNew EXCEPT !.current_table_plan = PlanMap(snaps[isought]),
                       !.current_snapshot_id = isought]

\* A step of read() of a reader that seek() has placed at isought and that
\* has returned nothing yet.
FirstReadAfterSeek ==
    /\ Sought
    /\ isought' = isought
    /\ iout = <<>>
    /\ ir.diff_queue = <<>>
    /\ ir.current_snapshot_id = isought
    /\ <<ir, iout>>' # <<ir, iout>>

\* What that step does: nothing while the current snapshot is the sought
\* one; otherwise, unless the step fails, the diff from the plan of the
\* sought snapshot to the plan of the current one.
ResumesFromSought ==
    IF icur = isought
    THEN iout' = <<>> /\ ir'.diff_queue = <<>> /\ ir'.current_snapshot_id = isought
    ELSE \/ iout' # <<>> /\ IsFailure(Last(iout'))
         \/ /\ ir'.current_snapshot_id = icur
            /\ ExactDiff(snaps[isought], snaps[icur], Produced, icur)

\* The events a call of read() emits: the event it returns and those it
\* leaves in the queue.
Emitted(call) ==
    (IF IsEvent(call.result) THEN <<call.result>> ELSE <<>>) \o call.r.diff_queue

\* The next read() of the idle reader, which has read up to its snapshot s
\* without a restart, emits what the next read() of a fresh reader after
\* seek(s) emits.
AsAfterSeek ==
    (/\ ~Sought
     /\ ipc = "idle"
     /\ ir.diff_queue = <<>>
     /\ ir.current_snapshot_id # NoSnapshot)
    => \A hash_order \in Orders(Changed) :
          LET fresh == IcebergSeek(IcebergNew, Table, ir.current_snapshot_id, CatalogAnswers).r
              continued == IcebergRead(ir, Table, ipolling, FALSE, hash_order, CatalogAnswers)
              resumed == IcebergRead(fresh, Table, ipolling, FALSE, hash_order, CatalogAnswers)
          IN Emitted(continued) = Emitted(resumed)

\* C6 as stated: after seek(s) on a fresh reader current_snapshot_id = s and
\* the plan is the plan of s; the next read() returns nothing while s is the
\* current snapshot and otherwise produces exactly the diff from plan(s) to
\* the plan of the current snapshot; a reader that had read up to s without
\* a restart does the same, in either mode.
C6_ResumeAsContinuous ==
    /\ [](Sought /\ ~ir.is_initialized => ir = SoughtReader)
    /\ [][FirstReadAfterSeek => ResumesFromSought]_vars
    /\ []AsAfterSeek

\* C6, amended: as above, but a reader that had read up to s without a
\* restart does the same only in polling mode (a one-shot reader that has
\* read up to s returns Finished).
C6_Resume ==
    /\ [](Sought /\ ~ir.is_initialized => ir = SoughtReader)
    /\ [][FirstReadAfterSeek => ResumesFromSought]_vars
    /\ [](ipolling => AsAfterSeek)

\* After seek(s) the reader has returned the NewSource of another snapshot
\* and a Data event of the diff.
C6_Witness ==
    /\ Sought
    /\ Len(iout) >= 2
    /\ iout[1].type = "NewSource"
    /\ iout[1].snapshot_id # isought
    /\ IsIData(iout[2])
    /\ ipolling

----------------------------------------------------------------------------
\* The snapshot ids of the NewSource markers of `results`, oldest first.
IsNewSource(res) == res.type = "NewSource"

GroupIds(results) ==
    LET m == SelectSeq(results, IsNewSource) IN [i \in 1..Len(m) |-> m[i].snapshot_id]

\* Every Data event between a NewSource and its FinishedSource carries the
\* snapshot id of that NewSource; `group` is that id (NoSnapshot outside).
RECURSIVE ConstantInGroups(_, _)
ConstantInGroups(results, group) ==
    IF results = <<>> THEN TRUE
    ELSE LET e == Head(results)
         IN CASE e.type = "NewSource" -> ConstantInGroups(Tail(results), e.snapshot_id)
              [] e.type = "FinishedSource" -> ConstantInGroups(Tail(results), NoSnapshot)
              [] OTHER -> /\ group # NoSnapshot => e.snapshot_id = group
                          /\ ConstantInGroups(Tail(results), group)

\* C7 as stated: the snapshot id of the Data offsets never decreases, is
\* constant within a NewSource/FinishedSource group and grows from one
\* group to the next.
C7_OffsetMonotone ==
    LET d == SelectSeq(iout, IsIData)
        g == GroupIds(iout)
    IN /\ \A i \in 1..(Len(d) - 1) : d[i].snapshot_id <= d[i + 1].snapshot_id
       /\ ConstantInGroups(SelectSeq(iout, IsEvent), NoSnapshot)
       /\ \A i \in 1..(Len(g) - 1) : g[i] < g[i + 1]

\* C7, amended: the snapshot id of the Data offsets is constant within a
\* NewSource/FinishedSource group, where it is the id of the NewSource, and
\* differs from one group to the next; it may grow or shrink.
C7_OffsetPerGroup ==
    LET g == GroupIds(iout)
    IN /\ ConstantInGroups(SelectSeq(iout, IsEvent), NoSnapshot)
       /\ \A i \in 1..(Len(g) - 1) : g[i] # g[i + 1]

\* Two groups have been returned, the second with the smaller snapshot id.
C7_Witness ==
    LET g == GroupIds(iout)
    IN /\ Len(g) >= 2
       /\ g[2] < g[1]
       /\ \E i \in 1..Len(iout) : IsIData(iout[i]) /\ iout[i].snapshot_id = g[2]

----------------------------------------------------------------------------
(* Failures of read() *)

\* A step in which read() of the D-reader returned an error.
ReadFailed ==
    /\ Len(dout') = Len(dout) + 1
    /\ Last(dout').type \notin {"Data", "Finished"}

\* C11: a read() of the D-reader that returns an error leaves the triple
\* (current_version, rows_read_within_version, last_fully_read_version) as
\* it was before the call, whatever the error (deletion vector, missing
\* object) and whatever commits the call passed before it failed.
C11_FailedReadKeepsOffset == [][ReadFailed => Position(dr') = Position(dr)]_vars

\* C13: the sentinel NoObjectsToRead never leaves the reader: no read() and
\* no seek() returns it, for any table and any offset passed to seek(),
\* also one whose row count exceeds the rows its version has.
C13_SentinelNeverSurfaced ==
    /\ seekStatus # "NoObjectsToRead"
    /\ \A i \in 1..Len(dout) : dout[i].type # "NoObjectsToRead"

\* The part of C13 about read(): read() never returns the sentinel.
ReadHidesSentinel == \A i \in 1..Len(dout) : dout[i].type # "NoObjectsToRead"

\* A step in which read() of the I-reader returned an error.
IReadFailed ==
    /\ Len(iout') = Len(iout) + 1
    /\ IsFailure(Last(iout'))

\* C12: a read() of the I-reader that returns an error leaves the current
\* snapshot id, the current plan and the queue of pending results as they
\* were before the call, whichever step failed (plan, insert bucket, delete
\* bucket), so that no later read() returns an event of the failed
\* transition outside its markers or a row twice.
C12_FailedReadKeepsState ==
    [][IReadFailed =>
          /\ ir'.current_snapshot_id = ir.current_snapshot_id
          /\ ir'.current_table_plan = ir.current_table_plan
          /\ ir'.diff_queue = ir.diff_queue]_vars

----------------------------------------------------------------------------
(* Termination of the one-shot readers *)

\* The connector thread calls read() again and again: a call that can make a
\* step is not put off forever.
SpecIFair == Init /\ [][INext]_vars /\ WF_vars(IcebergReadStep)

\* read() of the I-reader has returned Finished or an error.
IEnded == \E i \in 1..Len(iout) : IsFinished(iout[i]) \/ IsFailure(iout[i])

\* C14: in one-shot mode every read() of the I-reader returns, and repeated
\* read() comes to Finished (or to an error), whatever the table holds: no
\* snapshot, an empty plan, a snapshot that changes nothing, or the snapshot
\* the reader was sought to.
C14_OneShotTerminates == (~ipolling /\ ipc # "closed") ~> IEnded

\* The call of a one-shot reader is never inside the sleep loop of
\* wait_for_snapshot_update.
OneShotNeverSleeps == ipc = "blocked" => ipolling

SpecDFair == Init /\ [][DNext]_vars /\ WF_vars(Read)

\* What a reader opened at OpenVersion returns up to version v: the rows of
\* its snapshot, then the rows of each later data-changing commit.
EventsUpTo(v) ==
    LET later == SelectSeq(SubSeq(log, OpenVersion + 1, v), DataChanging)
    IN SnapshotEvents \o Concat([i \in 1..Len(later) |-> CommitEvents(later[i])])

\* The one-shot reader opened by new(), not sought.
OneShot == Opened /\ ~Restarted /\ ~polling

ReturnedFinished == dout # <<>> /\ Last(dout).type = "Finished"

\* A step in which read() returned Finished.
FinishedStep == Len(dout') = Len(dout) + 1 /\ Last(dout').type = "Finished"

\* The safety part of C15: the one-shot reader never waits; when it returns
\* Finished it is at the end of the log and has returned every row of its
\* snapshot and of every later data-changing commit exactly once, in order.
OneShotExact ==
    /\ [](~polling => dpc # "blocked")
    /\ []((OneShot /\ ReturnedFinished) => EventsOf(dout) = EventsUpTo(dr.current_version))
    /\ [][FinishedStep => dr'.current_version = Len(log)]_vars

----------------------------------------------------------------------------
(* C16: the polling mode *)

\* A step of read() of the D-reader (a call, or a call leaving the loop).
DReadStep ==
    /\ dpc # "closed"
    /\ log' = log /\ seekStatus' = seekStatus /\ vacuumed' = vacuumed
    /\ <<dr, dpc, dout>>' # <<dr, dpc, dout>>

\* The D-reader holds no file and no row to return.
NothingPending == dr.parquet_files_queue = <<>> /\ dr.reader = <<>>

\* The commits after the reader's version that change data.
LaterData ==
    {v \in (dr.current_version + 1)..Len(log) : DataChanging(log[v]) \/ CarriesVector(log[v])}

FirstLaterData == CHOOSE v \in LaterData : \A w \in LaterData : v <= w

\* A step of read() of the I-reader.
IReadStep ==
    /\ ipc # "closed" /\ ipc' # "failed"
    /\ isought' = isought /\ snaps' = snaps /\ snapshot_log' = snapshot_log
    /\ expired' = expired
    /\ <<ir, ipc, iout>>' # <<ir, ipc, iout>>

\* The table has nothing new for the I-reader: no snapshot, the reader's
\* snapshot, or a snapshot whose plan is the reader's.
NothingNew == icur = NoSnapshot \/ icur = ir.current_snapshot_id \/ Changed = {}

\* C16: in polling mode no reader returns Finished: the D-reader returns
\* Data or an error, the I-reader Data, NewSource, FinishedSource or an
\* error.  A call that finds nothing pending returns nothing (it stays in
\* the polling loop) as long as no data-changing commit (D) or snapshot with
\* a non-empty diff (I) is there, and returns the first event of that commit
\* or snapshot (or its error) once it is.
C16_PollingNeverFinishes ==
    /\ [](polling => \A i \in 1..Len(dout) :
                        dout[i].type \in {"Data", "DeltaDeletionVectorsNotSupported"})
    /\ [](ipolling => \A i \in 1..Len(iout) :
                        iout[i].type \in {"Data", "NewSource", "FinishedSource", "Iceberg"})
    /\ [][(polling /\ DReadStep /\ NothingPending) =>
            IF LaterData = {}
            THEN dpc' = "blocked" /\ dout' = dout
            ELSE /\ dpc' = "idle"
                 /\ Len(dout') = Len(dout) + 1
                 /\ IF CarriesVector(log[FirstLaterData])
                    THEN Last(dout').type = "DeltaDeletionVectorsNotSupported"
                    ELSE /\ IsData(Last(dout'))
                         /\ <<Last(dout').event, Last(dout').row>>
                                = CommitEvents(log[FirstLaterData])[1]
                         /\ Last(dout').offset.version = FirstLaterData]_vars
    /\ [][(ipolling /\ IReadStep /\ ir.diff_queue = <<>>) =>
            IF NothingNew
            THEN ipc' = "blocked" /\ iout' = iout
            ELSE /\ ipc' = "idle"
                 /\ Len(iout') = Len(iout) + 1
                 /\ Last(iout') = NewSource(icur) \/ IsFailure(Last(iout'))]_vars

\* A polling I-reader has returned the events of two snapshots and waits
\* in the loop for the next.
C16_Witness ==
    /\ ipolling /\ ipc = "blocked"
    /\ Len(GroupIds(iout)) >= 2
    /\ Last(iout).type = "FinishedSource"

\* A polling D-reader has returned the rows of a commit that appeared after
\* it was opened and waits in the loop for the next.
PollingDeltaWaits ==
    /\ polling /\ dpc = "blocked"
    /\ \E i \in 1..Len(dout) : IsData(dout[i]) /\ dout[i].offset.version > OpenVersion

----------------------------------------------------------------------------
(* C17: current_version and the emitted offsets *)

\* A step in which read() of the D-reader returned a Data event.
DataStep == Len(dout') = Len(dout) + 1 /\ IsData(Last(dout'))

\* C17: for a reader that is opened, sought at most once and then read,
\* current_version is never less than a version the reader has emitted in a
\* Data offset, and each emitted offset carries the current_version of the
\* moment it is emitted.
C17_VersionCoversOffsets ==
    /\ [](\A i \in 1..Len(dout) :
              IsData(dout[i]) => dout[i].offset.version <= dr.current_version)
    /\ [][DataStep => Last(dout').offset.version = dr'.current_version]_vars

\* A reader sought to an earlier version has gone through a version
\* transition and returned rows of the later version.
C17_Witness ==
    /\ seekStatus = "Ok"
    /\ \E i \in 1..Len(dout) :
          /\ IsData(dout[i])
          /\ dout[i].offset.version > seekTo.version
          /\ dout[i].offset.version = dr.current_version

----------------------------------------------------------------------------
(* C18: the plan and the snapshot id of the I-reader *)

\* The plan of the snapshot the reader stands at.
PlanOfReader ==
    IF ir.current_snapshot_id = NoSnapshot THEN PlanMap({})
    ELSE PlanMap(snaps[ir.current_snapshot_id])

\* C18: whenever the I-reader is not inside a call (after open, after a
\* read() that returned a result or an error, after a seek that succeeded or
\* failed), current_table_plan is the plan of the snapshot
\* current_snapshot_id, empty when there is none; the plan never changes
\* without the snapshot id.
C18_PlanMatchesSnapshot ==
    /\ [](ir.current_table_plan = PlanOfReader)
    /\ [][ir'.current_table_plan # ir.current_table_plan
             => ir'.current_snapshot_id # ir.current_snapshot_id]_vars

\* A seek has failed, or a read() has returned an error after the reader
\* had moved to a snapshot with files.
C18_Witness ==
    /\ ir.current_snapshot_id # NoSnapshot
    /\ ir.current_table_plan # PlanMap({})
    /\ iout # <<>> /\ IsFailure(Last(iout))

----------------------------------------------------------------------------
(* C19: the meaning of the D offset *)

\* The events of the snapshot at version v, file after file as listed.
SnapshotEventsAt(v) ==
    Concat([i \in 1..Len(listing[v]) |-> FileEvents("Insert", listing[v][i])])

\* The Data event res is the n-th of the snapshot at its version (no version
\* transition yet), or the n-th of the commit leading to its version.
MeansItsRow(res) ==
    LET o == res.offset
        n == o.rows_read_within_version
        rows == IF o.last_fully_read_version = NoVersion
                THEN SnapshotEventsAt(o.version)
                ELSE CommitEvents(log[o.version])
    IN /\ o.last_fully_read_version < o.version
       /\ n \in 1..Len(rows)
       /\ rows[n] = <<res.event, res.row>>

\* C19: every Data offset emitted before the reader's first version
\* transition has last_fully_read_version unset and counts the row in the
\* files of the snapshot at its version; every Data offset emitted after a
\* transition has last_fully_read_version = v0 < version and counts the row
\* in the files of the commit leading from v0 to its version.
C19_OffsetMeaning ==
    \A i \in 1..Len(dout) :
        IsData(dout[i]) =>
            /\ MeansItsRow(dout[i])
            /\ (dout[i].offset.last_fully_read_version = NoVersion)
                  <=> (\A j \in 1..i : IsData(dout[j]) =>
                          dout[j].offset.version = dout[1].offset.version
                          /\ dout[j].offset.last_fully_read_version = NoVersion)

\* The same for the reader that was opened and never sought.
OffsetMeaningUnsought == ~Restarted => C19_OffsetMeaning

----------------------------------------------------------------------------
(* C20: the log is consumed in commit order *)

\* The version the reader started from: the one it was opened at, or the one
\* seek() placed it at before looking for later commits.
StartVersion ==
    IF ~Restarted THEN OpenVersion
    ELSE IF seekTo.last_fully_read_version # NoVersion
         THEN seekTo.last_fully_read_version
         ELSE seekTo.version

\* The Data events come version after version: no row of a commit follows a
\* row of a later commit.
RowsInCommitOrder ==
    LET d == DataOf(dout)
    IN \A i \in 1..(Len(d) - 1) : d[i].offset.version <= d[i + 1].offset.version

\* The reader stands at the last commit it examined, or just before it when
\* that commit was rejected.
StandsAtLastExamined ==
    dr.examined # <<>> =>
        \/ Last(dr.examined) = dr.current_version
        \/ /\ Last(dr.examined) = dr.current_version + 1
           /\ CarriesVector(log[Last(dr.examined)])

\* C20 as stated: starting from the version at open the reader examines each
\* later commit exactly once, in increasing order and without skipping one,
\* and returns the rows of a commit before any row of a later commit, while
\* writers append commits.
C20_EachCommitOnce ==
    (Opened /\ seekStatus \in {"none", "Ok"}) =>
        /\ \A k \in 1..Len(dr.examined) : dr.examined[k] = StartVersion + k
        /\ StandsAtLastExamined
        /\ RowsInCommitOrder

\* C20 amended: ... examines each later commit in increasing order and
\* without skipping one, exactly once unless the commit carries a deletion
\* vector: that commit is examined again by every read() that reaches it.
C20_CommitOrder ==
    (Opened /\ seekStatus \in {"none", "Ok"}) =>
        /\ dr.examined # <<>> => dr.examined[1] = StartVersion + 1
        /\ \A k \in 1..(Len(dr.examined) - 1) :
              \/ dr.examined[k + 1] = dr.examined[k] + 1
              \/ /\ dr.examined[k + 1] = dr.examined[k]
                 /\ CarriesVector(log[dr.examined[k]])
        /\ StandsAtLastExamined
        /\ RowsInCommitOrder

\* A reader has examined two commits that were appended after it was opened
\* and has returned rows of both.
C20_Witness ==
    /\ Opened /\ ~Restarted
    /\ Len(dr.examined) >= 2
    /\ \E i, j \in 1..Len(dout) :
          /\ IsData(dout[i]) /\ IsData(dout[j])
          /\ dout[i].offset.version = dr.examined[1]
          /\ dout[j].offset.version = dr.examined[2]

----------------------------------------------------------------------------
(* C21: the work items of a commit *)

\* The work items of a commit: one per Add or Remove, in the order of the
\* actions, whatever the data_change flag of the action.
WorkItems(acts) ==
    LET fa == SelectSeq(acts, IsFileAction)
    IN [i \in 1..Len(fa) |->
           DeltaReaderAction(IF fa[i].kind = "add" THEN "Insert" ELSE "Delete", fa[i].path)]

\* A step of read() that moves the reader to a data-changing commit.
AdvanceStep ==
    /\ DReadStep
    /\ dr'.current_version # dr.current_version
    /\ DataChanging(log[dr'.current_version])

----------------------------------------------------------------------------
\* The I-reader is open in one-shot mode.
IOneShot == ipc # "closed" /\ ~ipolling

\* The snapshot ids carried by the events of a result list.
EventIds(results) ==
    {results[i].snapshot_id : i \in {j \in 1..Len(results) :
        results[j].type \in {"NewSource", "Data"}}}

\* A read() of the one-shot reader that finds an empty queue after the
\* reader has been initialized, in a call of its own.
DrainedRead ==
    /\ IReadStep
    /\ ~ipolling
    /\ ipc = "idle"
    /\ ir.is_initialized
    /\ ir.diff_queue = <<>>

\* C22: a one-shot I-reader enters wait_for_snapshot_update in one call of
\* read() only, the first that finds the queue empty: every event it returns
\* carries the same snapshot id and there is one NewSource at most; a step
\* that moves the reader to another snapshot belongs to that call and no
\* event was returned before it; once the reader is initialized and the queue
\* empty, read() returns Finished and leaves the reader as it is, whatever
\* the catalog holds, and nothing but Finished follows a Finished.
C22_OneShotSingleTransition ==
    /\ [](IOneShot =>
            /\ Cardinality(EventIds(iout) \cup EventIds(ir.diff_queue)) <= 1
            /\ Len(SelectSeq(iout, IsNewSource)) <= 1
            /\ \A i, j \in 1..Len(iout) :
                  (i < j /\ IsFinished(iout[i])) => IsFinished(iout[j]))
    /\ [][(TransitionStep /\ ~ipolling) =>
            /\ ~ir.is_initialized \/ ipc = "blocked"
            /\ \A i \in 1..Len(iout) : ~IsEvent(iout[i])]_vars
    /\ [][DrainedRead =>
            /\ ir' = ir
            /\ ipc' = "idle"
            /\ iout' = Append(iout, Finished)]_vars

\* A one-shot reader has returned the events of a transition and then
\* Finished, twice, while the table's current snapshot is a newer one whose
\* plan differs from the reader's.
C22_Witness ==
    /\ IOneShot
    /\ \E i \in 1..Len(iout) : IsIData(iout[i])
    /\ Len(SelectSeq(iout, IsFinished)) = 2
    /\ icur # ir.current_snapshot_id
    /\ Changed # {}

----------------------------------------------------------------------------
\* The plan the reader starts from: the plan installed by seek, or none.
StartPlan == IF Sought THEN snaps[isought] ELSE {}

\* How many tasks of a task set decode the row x.
TimesIn(tasks, x) == Cardinality({t \in tasks : x \in Range(TaskRows(t))})

\* How many events of the kind `event` the results hold for the row x.
TimesReturned(results, event, x) ==
    Cardinality({i \in 1..Len(results) :
        IsIData(results[i]) /\ results[i].event = event /\ results[i].row = x})

AllRows == UNION {RowsOfTasks(snaps[s]) : s \in DOMAIN snaps}

\* The rows inserted and not deleted, the rows of the start plan included,
\* are the rows of the tasks of the reader's plan, each as often.
NetEffectIsPlan ==
    \A x \in AllRows :
        TimesIn(StartPlan, x) + TimesReturned(iout, "Insert", x)
            = TimesIn(TasksOf(ir.current_table_plan), x) + TimesReturned(iout, "Delete", x)

\* C25: whenever the queue of an I-reader is empty, the rows it has returned
\* as Insert and not as Delete, starting from the plan installed by seek or
\* from the empty plan, are the rows of the tasks of current_table_plan.
C25_NetEffectIsPlan ==
    (ipc \in {"idle", "blocked"} /\ ir.diff_queue = <<>>) => NetEffectIsPlan

\* The same for a reader none of whose calls has failed.
NetEffectUnfailed ==
    (ipc \in {"idle", "blocked"} /\ ir.diff_queue = <<>>
        /\ \A i \in 1..Len(iout) : ~IsFailure(iout[i])) => NetEffectIsPlan

\* A reader without failure has moved over a snapshot it never saw and back
\* to an older one.
NetEffectCase ==
    /\ ipc = "idle" /\ ir.diff_queue = <<>>
    /\ \A i \in 1..Len(iout) : ~IsFailure(iout[i])
    /\ \E i \in 1..Len(iout) : IsDelete(iout[i])
    /\ Len(snapshot_log) >= 3
    /\ ir.current_snapshot_id = icur

----------------------------------------------------------------------------
IsVectorError(res) == res.type = "DeltaDeletionVectorsNotSupported"

\* The last call of read() returned the deletion-vector error.
AfterVectorError == dpc = "idle" /\ dout # <<>> /\ IsVectorError(Last(dout))

----------------------------------------------------------------------------
\* A read() of a one-shot D-reader whose last call returned Finished.
ReadAfterFinished ==
    /\ ~polling
    /\ dpc = "idle"
    /\ ReturnedFinished
    /\ DReadStep

\* C27 as stated: once read() of a one-shot D-reader has returned Finished,
\* every later read() of that reader returns Finished, also when
\* data-changing commits are appended after the first Finished.
C27_FinishedAbsorbing ==
    ~polling =>
        \A i, j \in 1..Len(dout) :
            (i < j /\ dout[i].type = "Finished") => dout[j].type = "Finished"

\* C27 amended: a read() after Finished returns Finished again exactly when
\* no commit after current_version changes data or carries a deletion
\* vector; otherwise it returns the first row of the first such commit, or
\* the deletion-vector error of that commit.
C27_FinishedUntilCommit ==
    [][ReadAfterFinished =>
          /\ Len(dout') = Len(dout) + 1
          /\ dpc' = "idle"
          /\ IF LaterData = {}
             THEN /\ Last(dout').type = "Finished"
                  /\ dr'.current_version = Len(log)
                  /\ dr'.parquet_files_queue = <<>> /\ dr'.reader = <<>>
             ELSE IF CarriesVector(log[FirstLaterData])
             THEN IsVectorError(Last(dout'))
             ELSE /\ IsData(Last(dout'))
                  /\ Last(dout').offset.version = FirstLaterData
                  /\ <<Last(dout').event, Last(dout').row>>
                        = CommitEvents(log[FirstLaterData])[1]]_vars

\* A one-shot reader has returned Finished twice and then, after a commit,
\* a row of that commit.
C27_Witness ==
    /\ ~polling
    /\ Len(dout) >= 3
    /\ dout[1].type = "Finished"
    /\ dout[2].type = "Finished"
    /\ IsData(dout[3])
    /\ dout[3].offset.version = Len(log)

----------------------------------------------------------------------------
\* The separator put between base_path and a path: none when base_path ends
\* with '/', one '/' otherwise.
Separator(base) == IF ends_with(base, "/") THEN <<>> ELSE <<"/">>

\* A path that does not start at the root: the path of a file relative to
\* the location of its table.
IsRelative(p) == p # <<>> /\ p[1] # "/"

\* What the function returns: the path itself when it starts with base_path,
\* otherwise base_path, the separator and the path; the result starts with
\* base_path and the function returns it unchanged when applied again.
PathRule ==
    /\ absolute # NoPath =>
          /\ starts_with(file_path, base_path) => absolute = file_path
          /\ ~starts_with(file_path, base_path)
                => absolute = base_path \o Separator(base_path) \o file_path
          /\ starts_with(absolute, base_path)
    /\ again # NoPath => again = absolute

\* C23: ensure_absolute_path_with_base(p, b) returns p when p starts with b
\* and otherwise b and p with exactly one '/' between them; the result starts
\* with b; the function is idempotent; and a relative path is always
\* rewritten to b, the separator and p.
C23_PathNormalization ==
    /\ PathRule
    /\ (absolute # NoPath /\ IsRelative(file_path))
          => absolute = base_path \o Separator(base_path) \o file_path

\* Paths of either kind have been normalized twice.
PathRuleCase ==
    /\ again # NoPath
    /\ ~starts_with(file_path, base_path)
    /\ IsRelative(file_path)
    /\ ~ends_with(base_path, "/")

----------------------------------------------------------------------------
\* The type inside the Optional wrappers of a type.
RECURSIVE Unwrapped(_)
Unwrapped(type_) == IF Head(type_) = "Optional" THEN Unwrapped(Tail(type_)) ELSE type_

\* The primitive type a variant is mapped to in the Delta schema.
DeltaPrimitive ==
    [Bool |-> "Boolean", Int |-> "Long", Duration |-> "Long", Float |-> "Double",
     String |-> "String", Json |-> "String", Bytes |-> "Binary",
     DateTimeNaive |-> "TimestampNtz", DateTimeUtc |-> "Timestamp"]

\* The primitive type a variant is mapped to in the Iceberg schema.
IcebergPrimitive ==
    [Bool |-> "Boolean", Int |-> "Long", Duration |-> "Long", Float |-> "Double",
     String |-> "String", Json |-> "String", Bytes |-> "Binary",
     DateTimeNaive |-> "Timestamp", DateTimeUtc |-> "Timestamptz"]

Unsupported == {"Any", "Array", "Tuple", "List", "PyObjectWrapper", "Pointer"}

\* `mapped` is what the table `primitive` gives for the type inside the
\* Optional wrappers of engine_type, or UnsupportedType for the six variants.
FollowsTable(mapped, primitive) ==
    LET k == Head(Unwrapped(engine_type))
    IN IF k \in Unsupported
       THEN mapped.status = "UnsupportedType"
       ELSE k \in DOMAIN primitive /\ mapped = Mapped(primitive[k])

\* C24: both mappings send Bool to Boolean, Int and Duration to Long, Float
\* to Double, String and Json to String, Bytes to Binary, DateTimeNaive to
\* TimestampNtz (Delta) or Timestamp (Iceberg), DateTimeUtc to Timestamp
\* (Delta) or Timestamptz (Iceberg); Optional(T) is mapped as T at any depth;
\* Any, Array, Tuple, List, PyObjectWrapper and Pointer are rejected with
\* UnsupportedType, also inside Optional; both accept the same types.
C24_TypeMapping ==
    /\ delta_mapped # NotMapped =>
          /\ FollowsTable(delta_mapped, DeltaPrimitive)
          /\ Head(engine_type) = "Optional"
                => delta_mapped = delta_table_primitive_type(Tail(engine_type))
    /\ iceberg_mapped # NotMapped =>
          /\ FollowsTable(iceberg_mapped, IcebergPrimitive)
          /\ Head(engine_type) = "Optional"
                => iceberg_mapped = iceberg_type(Tail(engine_type))
    /\ (delta_mapped # NotMapped /\ iceberg_mapped # NotMapped)
          => (delta_mapped.status = "Ok" <=> iceberg_mapped.status = "Ok")

\* Optional(Optional(DateTimeUtc)) has been mapped for both formats.
C24_Witness ==
    /\ engine_type = <<"Optional", "Optional", "DateTimeUtc">>
    /\ delta_mapped = Mapped("Timestamp")
    /\ iceberg_mapped = Mapped("Timestamptz")

\* Optional(List(Int)) has been rejected for both formats.
RejectedInOptional ==
    /\ engine_type = <<"Optional", "List", "Int">>
    /\ delta_mapped.status = "UnsupportedType"
    /\ iceberg_mapped.status = "UnsupportedType"

----------------------------------------------------------------------------
\* A step of seek() with a frontier that holds nothing for the reader.
EmptySeekStep == frontier' # frontier

\* C28: seek() with a frontier that holds no offset for the reader's key, or
\* an offset of another storage, returns Ok and leaves the reader as it is:
\* row iterator, current_version, last_fully_read_version,
\* rows_read_within_version and queue of a D-reader; current_snapshot_id,
\* current_table_plan, queue and is_initialized of an I-reader.
C28_EmptySeekChangesNothing ==
    [][EmptySeekStep =>
          /\ dr' = dr /\ dpc' = dpc
          /\ ir' = ir /\ ipc' = ipc]_vars

\* seek() has been called with such a frontier on a D-reader in the middle
\* of a file, with files left in its queue.
C28_Witness ==
    /\ frontier # NoFrontier
    /\ dpc = "idle"
    /\ dr.reader # <<>>
    /\ dr.parquet_files_queue # <<>>

\* The same on an I-reader that has a plan and events in its queue.
EmptySeekOnIceberg ==
    /\ frontier # NoFrontier
    /\ ipc = "idle"
    /\ ir.diff_queue # <<>>
    /\ ir.is_initialized

----------------------------------------------------------------------------
\* A step in which IcebergReader::new has been called.
ReaderNewStep == opened' # opened

\* C29: IcebergReader::new, whether it returns a reader or an error, leaves
\* the namespaces and the tables of the catalog as they are.
C29_NewLeavesCatalog ==
    [][ReaderNewStep => (namespaces' = namespaces /\ tables' = tables)]_vars

\* IcebergReader::new creates no table and drops nothing, and it leaves the
\* namespaces as they are when the namespace it is given exists.
NewOnExistingNamespace ==
    [][ReaderNewStep =>
          /\ tables' = tables
          /\ namespaces \subseteq namespaces'
          /\ Last(opened').namespace \in namespaces => namespaces' = namespaces]_vars

\* A reader has been constructed on an existing table and another call has
\* failed.
NewCases ==
    /\ Len(opened) = 2
    /\ opened[1].status = "Ok"
    /\ opened[2].status # "Ok"

====
